---- MODULE Spec2Model ----
(***************************************************************************)
(* Frigate Commander: the job engine of src/api (jobs.py, worker.py,       *)
(* main.py) as a state machine.                                            *)
(*                                                                         *)
(* The persisted job records (one JSON file per job) are the function      *)
(* `store`; the two module-level registries of worker.py are               *)
(* `running_jobs` and `progress_callbacks`; every asyncio task created by  *)
(* start_job is an entry of `tasks`, whose `pc` is the await at which the  *)
(* coroutine run_job is suspended; every child process is an entry of      *)
(* `procs`.  One action is one uninterrupted run of the event loop's       *)
(* current callback: the code between two awaits.  A call that changes     *)
(* nothing (start_job on a registered job, a rejected retry, cancel_job on *)
(* a job that is neither registered nor pending) is a stuttering step.     *)
(*                                                                         *)
(* The client calls of the model are those of worker.py and jobs.py        *)
(* (create_job, start_job, cancel_job, the callback registry) and the      *)
(* endpoints of main.py that combine them (POST /api/jobs, retry).  The    *)
(* server can die at any moment and be started again.  Not modelled: the   *)
(* deletion of a job file, the shutdown half of lifespan, file-system      *)
(* errors of the JSON store, and the per-job log file, which no operation  *)
(* reads back.  Job arguments are taken well typed (models.py:             *)
(* MontageArguments, TimelapseArguments), so build_command returns.        *)
(*                                                                         *)
(* Spec and FairSpec follow the engine with every output line read as soon *)
(* as it is written.  Further specifications start the same engine and     *)
(* follow one part of the program each, on variables the engine's steps    *)
(* leave alone:                                                            *)
(*   OrderSpec   the stdout pipes between the children and run_job, and    *)
(*               the invocations each progress callback receives;          *)
(*   InputSpec   one create request with free window arguments, validated  *)
(*               by compute_window inside the script the job runs;         *)
(*   SegSpec     frigate_segments.py: build_segments_from_events and       *)
(*               merge_segments on events and segment lists;               *)
(*   SrcSpec     frigate_sources.py: scan_index, find_files_for_segment    *)
(*               and the manifest loop of main (the loop of                *)
(*               frigate_montage.main is the same);                        *)
(*   ParseSpec   worker.parse_progress alone, on lines that match several  *)
(*               rules at once;                                            *)
(*   OutputSpec  the stdout pipe again, with output-file markers among the *)
(*               lines and children that exit; `written` keeps what each   *)
(*               child has written;                                        *)
(*   TempoSpec, CmdSpec, ScanSpec, ConcatSpec, VodSpec and VodFairSpec     *)
(*               one helper of the scripts each, called through `tool`:    *)
(*               atempo_chain_for_speed; run_ffmpeg and build_ffmpeg_cmd;  *)
(*               the folder scan of scan_index; build_concat_entries; the  *)
(*               loop of generate_vod_segments, one turn per step.         *)
(* Times of events are counted in Ticks per second, slop multipliers in    *)
(* 1/SlopDen, percentages in hundredths, speeds in 1/SpeedDen and sample   *)
(* intervals in 1/IntervalDen.                                             *)
(***************************************************************************)
EXTENDS Integers, Sequences, FiniteSets, TLC

\* ------------------------------------------------------------- bounds
MaxJobs == 2        \* job identifiers that create_job hands out
MaxTasks == 2       \* asyncio tasks that start_job creates
MaxFairTasks == 1   \* asyncio tasks created in the runs followed for liveness
MaxLines == 1       \* output lines read, over all runs
MaxRestarts == 1    \* server crashes followed by a new startup
MaxObservers == 1   \* progress callbacks (websocket connections)
MaxSubscribers == 2 \* progress callbacks in the runs followed for the order of notifications
MaxWritten == 3     \* output lines written in those runs, over all children

JobIds == 1..MaxJobs
TaskIds == 1..MaxTasks
Observers == 1..MaxObservers
Subscribers == 1..MaxSubscribers

\* Optional[str] = None
Null == "null"

\* ------------------------------------------------------------- models.py
PENDING == "pending"
RUNNING == "running"
COMPLETED == "completed"
FAILED == "failed"
CANCELLED == "cancelled"
JobStatus == {PENDING, RUNNING, COMPLETED, FAILED, CANCELLED}
Terminal == {COMPLETED, FAILED, CANCELLED}

\* JobProgress(): the defaults of the model class
JobProgress == [phase |-> "pending", percent |-> 0, message |-> ""]

\* The requests the callers make: JobCreate(type, camera, arguments).  create_job
\* stores a request without looking into it, and nothing else of the job's life
\* depends on it here, so the n-th create request of a run carries the n-th payload.
JobCreates ==
    << [type |-> "montage", camera |-> "front", arguments |-> "args_a"],
       [type |-> "timelapse", camera |-> "back", arguments |-> "args_b"] >>

JobCreate(n) == JobCreates[((n - 1) % Len(JobCreates)) + 1]

\* Job(...): a new record, with the defaults of the model class
Job(id, jc) ==
    [id |-> id, type |-> jc.type, status |-> PENDING, camera |-> jc.camera,
     started_at |-> Null, completed_at |-> Null, progress |-> JobProgress,
     arguments |-> jc.arguments, output_file |-> Null, error |-> Null, pid |-> 0]

\* ------------------------------------------------------------- jobs.py
\* The store is a function from the identifiers that have a file to records.
save_job(st, job) ==
    [i \in (DOMAIN st) \cup {job.id} |-> IF i = job.id THEN job ELSE st[i]]

\* load_job returns None when the file is missing
Missing(st, id) == id \notin DOMAIN st

\* `if error:` is false for None and for the empty string
Truthy(s) == s # Null /\ s # ""

StatusWrite(job, status, error) ==
    [job EXCEPT
        !.status = status,
        !.error = IF Truthy(error) THEN error ELSE @,
        !.started_at = IF status = RUNNING /\ @ = Null THEN "set" ELSE @,
        !.completed_at = IF status \in Terminal THEN "set" ELSE @]

update_job_status(st, id, status, error) ==
    IF Missing(st, id) THEN st ELSE save_job(st, StatusWrite(st[id], status, error))

update_job_progress(st, id, progress) ==
    IF Missing(st, id) THEN st ELSE save_job(st, [st[id] EXCEPT !.progress = progress])

update_job_output(st, id, output_file) ==
    IF Missing(st, id) THEN st ELSE save_job(st, [st[id] EXCEPT !.output_file = output_file])

update_job_pid(st, id, pid) ==
    IF Missing(st, id) THEN st ELSE save_job(st, [st[id] EXCEPT !.pid = pid])

get_running_jobs(st) == { i \in DOMAIN st : st[i].status = RUNNING }

\* ------------------------------------------------------------- output lines
\* A line of the child's output, by what the patterns of worker.py find in it:
\*   text     the stripped line
\*   pct      group(1) of PROGRESS_PATTERNS[0] in hundredths of a percent, -1: no match
\*   cnt      <<done, total>> of PROGRESS_PATTERNS[1], <<>>: no match
\*   extract  PROGRESS_PATTERNS[2] matches;  encode  PROGRESS_PATTERNS[3] matches
\*   kw       the keywords of the lower-cased line
\*   bracket  the line starts with "["
\*   done_path, output_path, wrote_path   the path each output marker names, Null: no marker
NoPct == -1
Line(text, pct, cnt, extract, encode, kw, bracket, dp, op, wp) ==
    [text |-> text, pct |-> pct, cnt |-> cnt, extract |-> extract, encode |-> encode,
     kw |-> kw, bracket |-> bracket, done_path |-> dp, output_path |-> op, wrote_path |-> wp]

L_pct == Line("Progress: 45.0% time=00:01:23", 4500, <<>>, FALSE, FALSE, {}, FALSE, Null, Null, Null)
L_out == Line("Output: /montages/out.mp4", NoPct, <<>>, FALSE, FALSE, {}, FALSE, Null, "/montages/out.mp4", Null)
L_dbg == Line("[debug] tick", NoPct, <<>>, FALSE, FALSE, {}, TRUE, Null, Null, Null)

\* What the child processes of the model print.
RunLines == {L_pct, L_out, L_dbg}

\* os.path.exists
ExistingFiles == {"/montages/out.mp4", "/montages/list.m3u"}

Min(a, b) == IF a < b THEN a ELSE b

\* `current_progress.phase or default`
OrElse(s, default) == IF s = "" THEN default ELSE s

CountPercent(cnt) == IF cnt[2] > 0 THEN (cnt[1] * 10000) \div cnt[2] ELSE 0

\* The rules with the counter looked at before the percentage
parse_progress_count_first(line, cur) ==
    IF line.cnt # <<>> THEN
        [phase |-> OrElse(cur.phase, "process"), percent |-> Min(10000, CountPercent(line.cnt)),
         message |-> line.text]
    ELSE IF line.pct # NoPct THEN
        [phase |-> OrElse(cur.phase, "render"), percent |-> Min(10000, line.pct), message |-> line.text]
    ELSE IF line.extract THEN
        [phase |-> "extract", percent |-> 0, message |-> line.text]
    ELSE IF line.encode THEN
        [phase |-> "encode", percent |-> cur.percent, message |-> line.text]
    ELSE IF "segment" \in line.kw /\ ("found" \in line.kw \/ "total" \in line.kw) THEN
        [phase |-> "segments", percent |-> 0, message |-> line.text]
    ELSE IF "concat" \in line.kw THEN
        [phase |-> "concat", percent |-> 0, message |-> line.text]
    ELSE IF "running:" \in line.kw \/ "ffmpeg" \in line.kw THEN
        [phase |-> "render", percent |-> 0, message |-> line.text]
    ELSE IF "done:" \in line.kw THEN
        [phase |-> "complete", percent |-> 10000, message |-> line.text]
    ELSE IF "error" \in line.kw \/ "failed" \in line.kw THEN
        [phase |-> "error", percent |-> cur.percent, message |-> line.text]
    ELSE IF line.text # "" /\ ~line.bracket THEN
        [phase |-> cur.phase, percent |-> cur.percent, message |-> line.text]
    ELSE cur

parse_progress(line, cur) ==
    IF line.pct # NoPct THEN
        [phase |-> OrElse(cur.phase, "render"), percent |-> Min(10000, line.pct), message |-> line.text]
    ELSE IF line.cnt # <<>> THEN
        [phase |-> OrElse(cur.phase, "process"), percent |-> Min(10000, CountPercent(line.cnt)),
         message |-> line.text]
    ELSE IF line.extract THEN
        [phase |-> "extract", percent |-> 0, message |-> line.text]
    ELSE IF line.encode THEN
        [phase |-> "encode", percent |-> cur.percent, message |-> line.text]
    ELSE IF "segment" \in line.kw /\ ("found" \in line.kw \/ "total" \in line.kw) THEN
        [phase |-> "segments", percent |-> 0, message |-> line.text]
    ELSE IF "concat" \in line.kw THEN
        [phase |-> "concat", percent |-> 0, message |-> line.text]
    ELSE IF "running:" \in line.kw \/ "ffmpeg" \in line.kw THEN
        [phase |-> "render", percent |-> 0, message |-> line.text]
    ELSE IF "done:" \in line.kw THEN
        [phase |-> "complete", percent |-> 10000, message |-> line.text]
    ELSE IF "error" \in line.kw \/ "failed" \in line.kw THEN
        [phase |-> "error", percent |-> cur.percent, message |-> line.text]
    ELSE IF line.text # "" /\ ~line.bracket THEN
        [phase |-> cur.phase, percent |-> cur.percent, message |-> line.text]
    ELSE cur

extract_output_file(line) ==
    IF line.done_path # Null /\ line.done_path \in ExistingFiles THEN line.done_path
    ELSE IF line.output_path # Null /\ line.output_path \in ExistingFiles THEN line.output_path
    ELSE IF line.wrote_path # Null /\ line.wrote_path \in ExistingFiles THEN line.wrote_path
    ELSE Null

\* ------------------------------------------------------------- state
VARIABLES
    up,                  \* the server process is alive and lifespan's startup has run
    restarts,            \* crashes so far
    store,               \* JOBS_DIR: job id -> persisted Job record
    next_id,             \* identifiers handed out by generate_job_id
    running_jobs,        \* worker._running_jobs: job id -> task, 0: not a key
    progress_callbacks,  \* worker._progress_callbacks: job id -> list of callbacks
    tasks,               \* the asyncio tasks created so far, in creation order
    procs,               \* the children of the unfinished tasks: task (its pid) -> state
    lines_read,          \* output lines read so far
    ret,                 \* the retry_job call this step served, if it served one
    line_in,             \* the output line this step read, if it read one
    delivered            \* the callback invocations this step made, in order

\* The runs followed for the order of the notifications keep the lines a child has
\* written and its task has not read, and what each callback was invoked with.
VARIABLES
    stdout,              \* process.stdout: task -> the lines written and not yet read
    emitted,             \* lines written so far, over all children
    received,            \* callback -> the invocations for a line read, in order
    written              \* task -> every line its child has written, in order (kept
                         \* in the runs followed for the output file)

\* The runs followed for one create request keep the window arguments it carries.
VARIABLES
    request              \* the `arguments` of the JobCreate the client sends

\* The pure functions of the scripts are followed on inputs drawn at the start.
VARIABLES
    seg,                 \* frigate_segments.py: events, options, and the lists computed
    src,                 \* frigate_sources.py: recordings, options, and the manifest so far
    parsing,             \* worker.parse_progress: a line, the progress before and after
    tool                 \* a helper of the scripts called alone: its arguments and result

engine_vars == <<up, restarts, store, next_id, running_jobs, progress_callbacks, tasks, procs,
                 lines_read, ret, line_in, delivered>>

\* What the steps of Spec leave as it is: there a line is read as soon as it is written
side_vars == <<stdout, emitted, received, written, request, seg, src, parsing, tool>>

\* What the steps of frigate_segments.py, of frigate_sources.py and of a call of
\* parse_progress alone leave as it is
not_seg == <<engine_vars, stdout, emitted, received, written, request, src, parsing, tool>>
not_src == <<engine_vars, stdout, emitted, received, written, request, seg, parsing, tool>>
not_parsed == <<engine_vars, stdout, emitted, received, written, request, seg, src, tool>>
not_tool == <<engine_vars, stdout, emitted, received, written, request, seg, src, parsing>>

\* What the steps at the stdout pipes leave as it is
not_pipes == <<request, seg, src, parsing, tool>>

vars == <<engine_vars, side_vars>>

NoRet == [op |-> "none", id |-> 0, value |-> 0]
Ret(op, id, value) == [op |-> op, id |-> id, value |-> value]

NoLine ==
    [task |-> 0, line |-> Line("", NoPct, <<>>, FALSE, FALSE, {}, FALSE, Null, Null, Null)]

\* run_job's locals at line 324-325
StartProgress == [phase |-> "starting", percent |-> 0, message |-> "Starting..."]

\* The coroutine run_job(job_id) wrapped in a task that has not run yet.  must_cancel
\* is Task._must_cancel: task.cancel() was called, CancelledError is thrown into the
\* coroutine at the task's next step, and the cancel_job calls that await the task
\* resume when it ends.
NewTask(job_id) ==
    [job |-> job_id, pc |-> "created", must_cancel |-> FALSE,
     progress |-> StartProgress, output_file |-> Null]

\* A task whose coroutine has ended; its locals are gone.
DoneTask(job_id) == [NewTask(job_id) EXCEPT !.pc = "done"]

NewProc == [state |-> "alive", returncode |-> 0, sigterm |-> FALSE]

\* A child whose task has ended is out of the program's reach: nothing reads its
\* exit code any more, so the model stops following it.
Unsupervised(ps, t) == [p \in (DOMAIN ps) \ {t} |-> ps[p]]

ExitCodes == {0, 1}

\* The error strings of the code
CancelledError == "Job was cancelled"
CancelledBeforeStart == "Cancelled before starting"
RestartError == "Server restarted while job was running"
SpawnError == "[Errno 2] No such file or directory: 'python3'"
ExitError(returncode) == "Process exited with code " \o ToString(returncode)

\* _notify_progress(job): every registered callback of job.id, in list order
notify_progress(cbs, job) ==
    IF cbs[job.id] = <<>> THEN <<>>
    ELSE [i \in 1..Len(cbs[job.id]) |-> [cb |-> cbs[job.id][i], job |-> job]]

\* run_job's `finally`: the final notification, for a job whose file exists
FinalNotification(cbs, st, job_id) ==
    IF Missing(st, job_id) THEN <<>> ELSE notify_progress(cbs, st[job_id])

EngineInit ==
    /\ up = FALSE
    /\ restarts = 0
    /\ store = <<>>
    /\ next_id = 0
    /\ running_jobs = [i \in JobIds |-> 0]
    /\ progress_callbacks = [i \in JobIds |-> <<>>]
    /\ tasks = <<>>
    /\ procs = <<>>
    /\ lines_read = 0
    /\ ret = NoRet
    /\ line_in = NoLine
    /\ delivered = <<>>

PipesInit ==
    /\ stdout = [t \in TaskIds |-> <<>>]
    /\ emitted = 0
    /\ received = [o \in Subscribers |-> <<>>]
    /\ written = [t \in TaskIds |-> <<>>]

\* An optional argument is <<>> when it is absent (None, or the empty string) and
\* <<v>> when it has the value v
None == <<>>
Some(v) == <<v>>

\* MontageArguments, TimelapseArguments: the window options, all at their defaults.
\* Times are epoch seconds and dates are day numbers.
NoRequest ==
    [start_time |-> None, end_time |-> None, dawntodusk |-> FALSE, dusktodawn |-> FALSE,
     date |-> None, start_date |-> None, end_date |-> None, days |-> None]

\* Nothing handed to frigate_segments.py
NoSeg ==
    [pc |-> "idle", input |-> "none", events |-> <<>>, window_after |-> 0, window_before |-> 0, pre_pad |-> 0,
     post_pad |-> 0, min_len |-> 0, merge_gap |-> 0, segments |-> <<>>, merged |-> <<>>,
     again |-> <<>>]

\* The recordings folder: whether it is there, and the chunk timestamps of its files.
\* A chunk is named here by its timestamp.
Recordings(present, stamps) == [present |-> present, stamps |-> stamps]

NoCall == [called |-> FALSE, chosen |-> <<>>, reason |-> Null]

\* Nothing handed to frigate_sources.py
NoSrc ==
    [pc |-> "idle", no_disk |-> FALSE, source |-> "disk", disk |-> Recordings(FALSE, {}),
     start_slop |-> 0, end_slop |-> 0, segments |-> <<>>, disk_index |-> <<>>,
     cadence |-> None, disk_err |-> Null, n |-> 0, resolved |-> <<>>,
     disk_failures |-> <<>>, call |-> NoCall, stats |-> <<>>]

\* No helper called
NoTool == [fn |-> "none", pc |-> "idle", arg |-> <<>>, out |-> <<>>]

\* No line handed to parse_progress
NoParsed == [pc |-> "idle", line |-> NoLine.line, cur |-> StartProgress, out |-> StartProgress]

Init ==
    /\ EngineInit
    /\ PipesInit
    /\ request = NoRequest
    /\ seg = NoSeg
    /\ src = NoSrc
    /\ parsing = NoParsed
    /\ tool = NoTool

\* ------------------------------------------------------------- main.py: lifespan
\* for job in jobs.get_running_jobs(): jobs.update_job_status(job.id, FAILED, error=...)
RECURSIVE FailInterrupted(_, _)
FailInterrupted(st, ids) ==
    IF ids = {} THEN st
    ELSE LET id == CHOOSE i \in ids : TRUE
         IN FailInterrupted(update_job_status(st, id, FAILED, RestartError), ids \ {id})

\* A startup without the recovery loop
lifespan_startup_skipped(st) == st

lifespan_startup(st) == FailInterrupted(st, get_running_jobs(st))

Startup ==
    /\ ~up
    /\ up' = TRUE
    /\ store' = lifespan_startup(store)
    /\ ret' = NoRet
    /\ line_in' = NoLine
    /\ UNCHANGED side_vars
    /\ delivered' = <<>>
    /\ UNCHANGED <<restarts, next_id, running_jobs, progress_callbacks, tasks, procs, lines_read>>

\* The server process dies: its tasks, registries and suspended calls are gone;
\* the job files stay, and the children run on unsupervised.
Crash ==
    /\ up
    /\ restarts < MaxRestarts
    /\ up' = FALSE
    /\ restarts' = restarts + 1
    /\ running_jobs' = [i \in JobIds |-> 0]
    /\ progress_callbacks' = [i \in JobIds |-> <<>>]
    /\ tasks' = [t \in 1..Len(tasks) |-> DoneTask(tasks[t].job)]
    /\ procs' = <<>>
    /\ ret' = NoRet
    /\ line_in' = NoLine
    /\ UNCHANGED side_vars
    /\ delivered' = <<>>
    /\ UNCHANGED <<store, next_id, lines_read>>

\* ------------------------------------------------------------- worker.py: start_job
\* start_job without its membership test
never_running(job_id) == FALSE

\* `if job_id in _running_jobs: return False`
already_running(job_id) == running_jobs[job_id] # 0

\* start_job(job_id) when it returns True: one new task, registered under job_id
start_job(job_id) ==
    /\ ~already_running(job_id)
    /\ Len(tasks) < MaxTasks
    /\ tasks' = Append(tasks, NewTask(job_id))
    /\ running_jobs' = [running_jobs EXCEPT ![job_id] = Len(tasks) + 1]

\* jobs.create_job(job_create): persists a pending job under a new identifier
create_job(job_create) ==
    /\ next_id < MaxJobs
    /\ next_id' = next_id + 1
    /\ store' = save_job(store, Job(next_id + 1, job_create))

CreateJob(jc) ==
    /\ up
    /\ create_job(jc)
    /\ ret' = NoRet
    /\ line_in' = NoLine
    /\ UNCHANGED side_vars
    /\ delivered' = <<>>
    /\ UNCHANGED <<up, restarts, running_jobs, progress_callbacks, tasks, procs, lines_read>>

\* worker.start_job(job_id)
StartJob(job_id) ==
    /\ up
    /\ ~Missing(store, job_id)
    /\ start_job(job_id)
    /\ ret' = NoRet
    /\ line_in' = NoLine
    /\ UNCHANGED side_vars
    /\ delivered' = <<>>
    /\ UNCHANGED <<up, restarts, store, next_id, progress_callbacks, procs, lines_read>>

\* main.create_job (POST /api/jobs): jobs.create_job, then worker.start_job
ApiCreateJob(jc) ==
    /\ up
    /\ create_job(jc)
    /\ start_job(next_id + 1)
    /\ ret' = NoRet
    /\ line_in' = NoLine
    /\ UNCHANGED side_vars
    /\ delivered' = <<>>
    /\ UNCHANGED <<up, restarts, progress_callbacks, procs, lines_read>>

\* retry_job without its status test
any_status(status) == TRUE

\* Line 173 of main.py: the statuses retry_job accepts
retryable(status) == status \in {FAILED, CANCELLED}

\* main.retry_job (POST /api/jobs/{id}/retry); 404 and 400 change nothing
RetryJob(job_id) ==
    /\ up
    /\ ~Missing(store, job_id)
    /\ retryable(store[job_id].status)
    /\ create_job([type |-> store[job_id].type, camera |-> store[job_id].camera,
                   arguments |-> store[job_id].arguments])
    /\ start_job(next_id + 1)
    /\ ret' = Ret("retry", job_id, next_id + 1)
    /\ line_in' = NoLine
    /\ UNCHANGED side_vars
    /\ delivered' = <<>>
    /\ UNCHANGED <<up, restarts, progress_callbacks, procs, lines_read>>

\* ------------------------------------------------------------- worker.py: cancel_job
\* os.kill(pid, SIGTERM); a pid with no live process raises ProcessLookupError, ignored
kill(ps, pid) ==
    IF pid \in DOMAIN ps /\ ps[pid].state # "exited"
    THEN [ps EXCEPT ![pid].sigterm = TRUE]
    ELSE ps

\* task.cancel(): a task that is not done gets CancelledError at its next step
task_cancel(ts, t) ==
    IF ts[t].pc = "done" THEN ts ELSE [ts EXCEPT ![t].must_cancel = TRUE]

\* cancel_job(job_id) up to `await task`.  Awaiting a finished task does not suspend;
\* otherwise the call resumes, and returns True, in the step that ends the task.
CancelJob(job_id) ==
    /\ up
    /\ ~Missing(store, job_id)
    /\ IF running_jobs[job_id] = 0
       THEN /\ store[job_id].status = PENDING
            /\ store' = update_job_status(store, job_id, CANCELLED, CancelledBeforeStart)
            /\ UNCHANGED <<tasks, procs>>
       ELSE /\ procs' = IF store[job_id].pid # 0 THEN kill(procs, store[job_id].pid) ELSE procs
            /\ tasks' = task_cancel(tasks, running_jobs[job_id])
            /\ UNCHANGED store
    /\ ret' = NoRet
    /\ line_in' = NoLine
    /\ UNCHANGED side_vars
    /\ delivered' = <<>>
    /\ UNCHANGED <<up, restarts, next_id, running_jobs, progress_callbacks, lines_read>>

\* ------------------------------------------------------------- worker.py: callbacks
Registered(o) ==
    \E j \in JobIds : \E i \in 1..Len(progress_callbacks[j]) : progress_callbacks[j][i] = o

\* main.websocket_job_progress registers one callback per connection, for a job that exists
RegisterCallback(job_id, o) ==
    /\ up
    /\ ~Missing(store, job_id)
    /\ ~Registered(o)
    /\ progress_callbacks' = [progress_callbacks EXCEPT ![job_id] = Append(@, o)]
    /\ ret' = NoRet
    /\ line_in' = NoLine
    /\ UNCHANGED side_vars
    /\ delivered' = <<>>
    /\ UNCHANGED <<up, restarts, store, next_id, running_jobs, tasks, procs, lines_read>>

UnregisterCallback(job_id, o) ==
    /\ up
    /\ \E i \in 1..Len(progress_callbacks[job_id]) : progress_callbacks[job_id][i] = o
    /\ progress_callbacks' = [progress_callbacks EXCEPT
           ![job_id] = SelectSeq(@, LAMBDA x : x # o)]
    /\ ret' = NoRet
    /\ line_in' = NoLine
    /\ UNCHANGED side_vars
    /\ delivered' = <<>>
    /\ UNCHANGED <<up, restarts, store, next_id, running_jobs, tasks, procs, lines_read>>

\* ------------------------------------------------------------- worker.py: run_job
\* `finally`: del _running_jobs[job_id] if present, then the final notification.
\* `st` is the store the earlier statements of the same step left.
RunFinally(t, st) ==
    /\ store' = st
    /\ running_jobs' = [running_jobs EXCEPT ![tasks[t].job] = 0]
    /\ delivered' = FinalNotification(progress_callbacks, st, tasks[t].job)
    /\ tasks' = [tasks EXCEPT ![t] = DoneTask(tasks[t].job)]
    /\ procs' = Unsupervised(procs, t)

Runnable(t) ==
    /\ up
    /\ t \in 1..Len(tasks)
    /\ tasks[t].pc # "done"
    /\ ~tasks[t].must_cancel

\* Lines 299-306: the first statements of the coroutine, up to the status write.
\* The task's first step goes on to create_subprocess_exec without an await in
\* between; the model makes the status write a state of its own, so that every
\* write of the record is a step.
RunJobStart(t) ==
    /\ Runnable(t)
    /\ tasks[t].pc = "created"
    /\ IF Missing(store, tasks[t].job)
       THEN \* `if not job: return`, before the try
            /\ tasks' = [tasks EXCEPT ![t] = DoneTask(tasks[t].job)]
            /\ UNCHANGED store
       ELSE /\ store' = update_job_status(store, tasks[t].job, RUNNING, Null)
            /\ tasks' = [tasks EXCEPT ![t].pc = "spawn"]
    /\ ret' = NoRet
    /\ line_in' = NoLine
    /\ UNCHANGED side_vars
    /\ delivered' = <<>>
    /\ UNCHANGED <<up, restarts, next_id, running_jobs, progress_callbacks, procs, lines_read>>

\* Lines 308-318 when create_subprocess_exec raises: `except Exception`, `finally`
RunJobSpawnError(t) ==
    /\ Runnable(t)
    /\ tasks[t].pc = "spawn"
    /\ RunFinally(t, update_job_status(store, tasks[t].job, FAILED, SpawnError))
    /\ ret' = NoRet
    /\ line_in' = NoLine
    /\ UNCHANGED side_vars
    /\ UNCHANGED <<up, restarts, next_id, progress_callbacks, lines_read>>

\* Lines 308-318: create_subprocess_exec forks the child and suspends the task until
\* the pipes are connected; the pid is not stored yet
RunJobExec(t) ==
    /\ Runnable(t)
    /\ tasks[t].pc = "spawn"
    /\ procs' = [p \in (DOMAIN procs) \cup {t} |-> IF p = t THEN NewProc ELSE procs[p]]
    /\ tasks' = [tasks EXCEPT ![t].pc = "exec"]
    /\ ret' = NoRet
    /\ line_in' = NoLine
    /\ UNCHANGED side_vars
    /\ delivered' = <<>>
    /\ UNCHANGED <<up, restarts, store, next_id, running_jobs, progress_callbacks, lines_read>>

\* Lines 313-329: create_subprocess_exec returns; store the pid, enter the read loop
RunJobSpawned(t) ==
    /\ Runnable(t)
    /\ tasks[t].pc = "exec"
    /\ UNCHANGED procs
    /\ store' = update_job_pid(store, tasks[t].job, t)
    /\ tasks' = [tasks EXCEPT ![t].pc = "read", ![t].progress = StartProgress,
                              ![t].output_file = Null]
    /\ ret' = NoRet
    /\ line_in' = NoLine
    /\ UNCHANGED side_vars
    /\ delivered' = <<>>
    /\ UNCHANGED <<up, restarts, next_id, running_jobs, progress_callbacks, lines_read>>

\* A comparison of phase and percent alone
phase_or_percent_changed(new, old) == new.phase # old.phase \/ new.percent # old.percent

\* Line 338: `if new_progress != progress`
progress_changed(new, old) == new # old

\* An assignment that keeps the first path found
keep_first_output_file(output_file, extracted) ==
    IF output_file # Null THEN output_file ELSE extracted

\* Lines 345-347: `if extracted: output_file = extracted`
keep_output_file(output_file, extracted) ==
    IF extracted # Null THEN extracted ELSE output_file

\* Lines 333-347: what the read loop does with one line
HandleLine(t, line) ==
    /\ Runnable(t)
    /\ tasks[t].pc = "read"
    /\ lines_read' = lines_read + 1
    /\ LET job_id == tasks[t].job
           new_progress == parse_progress(line, tasks[t].progress)
           changed == progress_changed(new_progress, tasks[t].progress)
           extracted == extract_output_file(line)
       IN /\ store' = IF changed THEN update_job_progress(store, job_id, new_progress) ELSE store
          /\ delivered' = IF changed /\ ~Missing(store, job_id)
                          THEN notify_progress(progress_callbacks, store'[job_id])
                          ELSE <<>>
          /\ tasks' = [tasks EXCEPT
                 ![t].progress = IF changed THEN new_progress ELSE @,
                 ![t].output_file = keep_output_file(@, extracted)]
    /\ ret' = NoRet
    /\ line_in' = [task |-> t, line |-> line]
    /\ UNCHANGED <<up, restarts, next_id, running_jobs, progress_callbacks, procs>>

\* Lines 329-347: one line read, as soon as the child has written it
RunJobLine(t, line) ==
    /\ t \in DOMAIN procs
    /\ procs[t].state = "alive"
    /\ lines_read < MaxLines
    /\ HandleLine(t, line)
    /\ UNCHANGED side_vars

\* A final status update that does not look at the exit code
RunJobExit_any_code(t) ==
    RunFinally(t, update_job_status(store, tasks[t].job, COMPLETED, Null))

\* Lines 351-363: the final status update, then `finally`
RunJobExit(t) ==
    LET job_id == tasks[t].job
        returncode == procs[t].returncode
    IN IF returncode = 0
       THEN RunFinally(t, update_job_status(
                IF tasks[t].output_file # Null
                THEN update_job_output(store, job_id, tasks[t].output_file)
                ELSE store,
                job_id, COMPLETED, Null))
       ELSE RunFinally(t, update_job_status(store, job_id, FAILED, ExitError(returncode)))

\* Lines 329-331, 349: readline returns b"" (the child has closed its stdout, at its
\* exit or before); process.wait() returns at once when the exit has been seen, else
\* the task waits for it
RunJobEOF(t) ==
    /\ Runnable(t)
    /\ tasks[t].pc = "read"
    /\ IF procs[t].state = "exited"
       THEN RunJobExit(t)
       ELSE /\ tasks' = [tasks EXCEPT ![t].pc = "wait"]
            /\ delivered' = <<>>
            /\ UNCHANGED <<store, running_jobs, procs>>
    /\ ret' = NoRet
    /\ line_in' = NoLine
    /\ UNCHANGED side_vars
    /\ UNCHANGED <<up, restarts, next_id, progress_callbacks, lines_read>>

\* Line 349: process.wait() returns
RunJobWaited(t) ==
    /\ Runnable(t)
    /\ tasks[t].pc = "wait"
    /\ procs[t].state = "exited"
    /\ RunJobExit(t)
    /\ ret' = NoRet
    /\ line_in' = NoLine
    /\ UNCHANGED side_vars
    /\ UNCHANGED <<up, restarts, next_id, progress_callbacks, lines_read>>

\* A cancellation handler that reports the exit code of the signalled child
on_cancelled_exit_code(st, job_id) == update_job_status(st, job_id, FAILED, ExitError(-15))

\* Lines 365-368: what `except asyncio.CancelledError` writes
on_cancelled(st, job_id) == update_job_status(st, job_id, CANCELLED, CancelledError)

\* The step of a task whose cancellation was requested: CancelledError is thrown
\* into the coroutine at the await where it is suspended.  A coroutine that has not
\* started ends at once, without entering the try.
RunJobCancelled(t) ==
    /\ up
    /\ t \in 1..Len(tasks)
    /\ tasks[t].pc # "done"
    /\ tasks[t].must_cancel
    /\ IF tasks[t].pc = "created"
       THEN /\ tasks' = [tasks EXCEPT ![t] = DoneTask(tasks[t].job)]
            /\ delivered' = <<>>
            /\ UNCHANGED <<store, running_jobs, procs>>
       ELSE RunFinally(t, on_cancelled(store, tasks[t].job))
    /\ ret' = NoRet
    /\ line_in' = NoLine
    /\ UNCHANGED side_vars
    /\ UNCHANGED <<up, restarts, next_id, progress_callbacks, lines_read>>

\* ------------------------------------------------------------- the child process
\* The child exits, on its own or on the signal; it may also never exit
ProcExit(p, returncode) ==
    /\ p \in DOMAIN procs
    /\ procs[p].state # "exited"
    /\ procs' = [procs EXCEPT ![p].state = "exited", ![p].returncode = returncode]
    /\ ret' = NoRet
    /\ line_in' = NoLine
    /\ UNCHANGED side_vars
    /\ delivered' = <<>>
    /\ UNCHANGED <<up, restarts, store, next_id, running_jobs, progress_callbacks, tasks, lines_read>>

\* ------------------------------------------------------------- specification
TaskStep(t) ==
    \/ RunJobStart(t)
    \/ RunJobSpawnError(t)
    \/ RunJobExec(t)
    \/ RunJobSpawned(t)
    \/ \E line \in RunLines : RunJobLine(t, line)
    \/ RunJobEOF(t)
    \/ RunJobWaited(t)
    \/ RunJobCancelled(t)

\* The calls that create a task
TaskCreation ==
    \/ ApiCreateJob(JobCreate(next_id + 1))
    \/ \E j \in JobIds : StartJob(j)
    \/ \E j \in JobIds : RetryJob(j)

\* Every other step
OtherStep ==
    \/ Startup
    \/ Crash
    \/ CreateJob(JobCreate(next_id + 1))
    \/ \E j \in JobIds : CancelJob(j)
    \/ \E j \in JobIds, o \in Observers : RegisterCallback(j, o)
    \/ \E j \in JobIds, o \in Observers : UnregisterCallback(j, o)
    \/ \E t \in TaskIds : TaskStep(t)
    \/ \E p \in TaskIds, rc \in ExitCodes : ProcExit(p, rc)

Next == TaskCreation \/ OtherStep

Spec == Init /\ [][Next]_vars

\* The event loop runs every task that is ready, and a task whose cancellation was
\* requested is made ready by task.cancel(): its next step is taken unless the
\* server dies first.  Nothing makes the child exit, a client call arrive or an
\* output line appear.  The runs followed for liveness create MaxFairTasks tasks.
FairNext ==
    \/ Len(tasks) < MaxFairTasks /\ ApiCreateJob(JobCreate(next_id + 1))
    \/ Len(tasks) < MaxFairTasks /\ \E j \in JobIds : StartJob(j)
    \/ Len(tasks) < MaxFairTasks /\ \E j \in JobIds : RetryJob(j)
    \/ OtherStep

FairSpec ==
    Init /\ [][FairNext]_vars /\ \A t \in 1..MaxFairTasks : WF_vars(RunJobCancelled(t))

\* ------------------------------------------------------------- the output pipe
L_pct90 == Line("Progress: 90.0% time=00:02:46", 9000, <<>>, FALSE, FALSE, {}, FALSE, Null, Null, Null)

\* What the children print in the runs followed for the order of notifications
OrderLines == {L_pct, L_pct90, L_dbg}

\* A read that takes the line written last
readline_newest(buf) == [line |-> buf[Len(buf)], rest |-> SubSeq(buf, 1, Len(buf) - 1)]

\* Line 329: `await process.stdout.readline()` takes the oldest line of the pipe
readline(buf) == [line |-> Head(buf), rest |-> Tail(buf)]

\* The child of task p writes one line to its stdout
ProcWrite(p, line) ==
    /\ p \in DOMAIN procs
    /\ procs[p].state = "alive"
    /\ emitted < MaxWritten
    /\ emitted' = emitted + 1
    /\ stdout' = [stdout EXCEPT ![p] = Append(@, [seq |-> emitted + 1, line |-> line])]
    /\ ret' = NoRet
    /\ line_in' = NoLine
    /\ delivered' = <<>>
    /\ UNCHANGED <<up, restarts, store, next_id, running_jobs, progress_callbacks, tasks,
                   procs, lines_read, received, written>>
    /\ UNCHANGED not_pipes

\* main.py 532-542: a callback is handed the record; what callback o has been handed
\* for the lines read so far, each with the number of the line that caused it
Receive(rcv, dl, seq) ==
    [o \in DOMAIN rcv |->
        LET mine == SelectSeq(dl, LAMBDA n : n.cb = o)
        IN IF mine = <<>> THEN rcv[o]
           ELSE rcv[o] \o [i \in 1..Len(mine) |-> [seq |-> seq, job |-> mine[i].job]]]

\* Lines 329-347: one line read from the pipe
RunJobRead(t) ==
    /\ stdout[t] # <<>>
    /\ LET r == readline(stdout[t])
       IN /\ HandleLine(t, r.line.line)
          /\ stdout' = [stdout EXCEPT ![t] = r.rest]
          /\ received' = Receive(received, delivered', r.line.seq)
    /\ UNCHANGED <<emitted, written, not_pipes>>

\* The runs followed for the order of notifications: jobs created and started through
\* the API, children that write lines, tasks that read them, callbacks that come and go
OrderNext ==
    \/ Startup
    \/ ApiCreateJob(JobCreate(next_id + 1))
    \/ \E j \in JobIds, o \in Subscribers : RegisterCallback(j, o)
    \/ \E j \in JobIds, o \in Subscribers : UnregisterCallback(j, o)
    \/ \E t \in TaskIds : RunJobStart(t)
    \/ \E t \in TaskIds : RunJobExec(t)
    \/ \E t \in TaskIds : RunJobSpawned(t)
    \/ \E p \in TaskIds, line \in OrderLines : ProcWrite(p, line)
    \/ \E t \in TaskIds : RunJobRead(t)

OrderSpec == Init /\ [][OrderNext]_vars

\* ------------------------------------------------------------- frigate_segments.py: compute_window
MaxTime == 2        \* the latest start-time and end-time of a request
MaxDay == 2         \* the latest date of a request
MaxDays == 2        \* the largest --days of a request

OptionalIn(S) == {None} \cup { Some(v) : v \in S }

\* The window options a request can carry
Requests ==
    [start_time : OptionalIn(1..MaxTime), end_time : OptionalIn(1..MaxTime),
     dawntodusk : BOOLEAN, dusktodawn : BOOLEAN,
     date : OptionalIn({MaxDay}), start_date : OptionalIn(1..MaxDay),
     end_date : OptionalIn(1..MaxDay), days : OptionalIn(-1..MaxDays)]

\* (now_local - timedelta(days=1)).date()
Yesterday == 1

\* `if x:` for an Optional[str]
Given(x) == x # None

\* `elif args.days:` is false for None and for 0
DaysGiven(days) == days # None /\ days[1] # 0

ErrTogether == "start-time and end-time must be provided together"
ErrDawnDusk == "start-time/end-time cannot be used with dawn/dusk windows"
ErrEndTime == "end-time must be after start-time"
ErrDays == "days must be >= 1"
ErrEndDate == "end-date must be on or after start-date"

\* compute_window(args, tz): the message of the SystemExit it raises, Null when it
\* returns a window
compute_window(args) ==
    IF Given(args.start_time) \/ Given(args.end_time) THEN
        IF ~(Given(args.start_time) /\ Given(args.end_time)) THEN ErrTogether
        ELSE IF args.dawntodusk \/ args.dusktodawn THEN ErrDawnDusk
        ELSE IF args.end_time[1] <= args.start_time[1] THEN ErrEndTime
        ELSE Null
    ELSE
        LET start_day == IF Given(args.start_date) THEN args.start_date[1]
                         ELSE IF Given(args.date) THEN args.date[1]
                         ELSE Yesterday
        IN IF Given(args.end_date) THEN
               IF args.end_date[1] < start_day THEN ErrEndDate ELSE Null
           ELSE IF DaysGiven(args.days) THEN
               IF args.days[1] < 1 THEN ErrDays
               ELSE IF start_day + args.days[1] - 1 < start_day THEN ErrEndDate
               ELSE Null
           ELSE Null

\* main.create_job is handed JobCreate(type, camera, arguments): the arguments are a
\* Dict[str, Any] that no code of the API looks into before the job is started
RequestJob == [type |-> "montage", camera |-> "front", arguments |-> request]

\* frigate_montage.main, frigate_timelapse.main: compute_window comes first, and a
\* SystemExit with a message ends the script with exit code 1
ScriptExit(p) ==
    /\ p \in 1..Len(tasks)
    /\ \E returncode \in ExitCodes :
          /\ compute_window(store[tasks[p].job].arguments) # Null => returncode = 1
          /\ ProcExit(p, returncode)

\* The runs followed for one create request
InputInit ==
    /\ EngineInit
    /\ PipesInit
    /\ request \in Requests
    /\ seg = NoSeg
    /\ src = NoSrc
    /\ parsing = NoParsed
    /\ tool = NoTool

InputNext ==
    \/ Startup
    \/ next_id = 0 /\ ApiCreateJob(RequestJob)
    \/ \E t \in TaskIds : RunJobStart(t)
    \/ \E t \in TaskIds : RunJobExec(t)
    \/ \E t \in TaskIds : RunJobSpawned(t)
    \/ \E p \in TaskIds : ScriptExit(p)
    \/ \E t \in TaskIds : RunJobEOF(t)
    \/ \E t \in TaskIds : RunJobWaited(t)

InputSpec == InputInit /\ [][InputNext]_vars

\* ------------------------------------------------------------- frigate_segments.py: segments
Ticks == 2          \* an event time is a float: a whole number of 1/Ticks seconds
MaxEvents == 2      \* events of a window
MaxSegments == 3    \* segments handed to merge_segments
MaxSecond == 4      \* the latest second of a segment handed to merge_segments
MaxGap == 2         \* the largest merge_gap
MaxMinLen == 2      \* the largest min_len
MaxPad == 1         \* the largest pre_pad and post_pad

\* The later of the two, whichever is larger
the_second(a, b) == b

Max(a, b) == IF a > b THEN a ELSE b

\* int(math.floor(float(st))) and int(math.ceil(float(et))), of a time in ticks
floor(v) == v \div Ticks

\* A rounding of the end time that goes down
ceil_wrong_side(v) == v \div Ticks

ceil(v) == (v + Ticks - 1) \div Ticks

\* `ev.get("end_time") or st`: None and 0.0 give the start time
EndOrStart(ev) ==
    IF ev.end_time # None /\ ev.end_time[1] # 0 THEN ev.end_time[1] ELSE ev.start_time[1]

\* Lines 153-167: the loop of build_segments_from_events
RECURSIVE build_segments_from_events(_, _, _, _, _, _)
build_segments_from_events(events, window_after, window_before, pre_pad, post_pad, min_len) ==
    IF events = <<>> THEN <<>>
    ELSE LET ev == Head(events)
             rest == build_segments_from_events(Tail(events), window_after, window_before,
                                                pre_pad, post_pad, min_len)
         IN IF ev.start_time = None THEN rest
            ELSE LET s == Max(floor(ev.start_time[1]) - pre_pad, window_after)
                     e == Min(ceil(EndOrStart(ev)) + post_pad, window_before)
                 IN IF e - s >= min_len THEN <<(<<s, e>>)>> \o rest ELSE rest

\* sorted(segments, key=lambda x: x[0]): a stable sort by start
RECURSIVE InsertByStart(_, _)
InsertByStart(x, sorted) ==
    IF sorted = <<>> THEN <<x>>
    ELSE IF x[1] < Head(sorted)[1] THEN <<x>> \o sorted
    ELSE <<Head(sorted)>> \o InsertByStart(x, Tail(sorted))

RECURSIVE SortByStart(_)
SortByStart(segments) ==
    IF segments = <<>> THEN <<>>
    ELSE InsertByStart(segments[Len(segments)], SortByStart(SubSeq(segments, 1, Len(segments) - 1)))

\* A test that leaves two segments apart when the gap between them is exactly merge_gap
near_strictly(s, pe, merge_gap) == s < pe + merge_gap

\* Line 183: `if s <= pe + int(merge_gap)`
near(s, pe, merge_gap) == s <= pe + merge_gap

\* Lines 177-186: the loop of merge_segments over the sorted list
RECURSIVE MergeInto(_, _, _)
MergeInto(merged, segments, merge_gap) ==
    IF segments = <<>> THEN merged
    ELSE LET s == Head(segments)[1]
             e == Head(segments)[2]
         IN IF merged = <<>> THEN MergeInto(<<(<<s, e>>)>>, Tail(segments), merge_gap)
            ELSE LET ps == merged[Len(merged)][1]
                     pe == merged[Len(merged)][2]
                 IN IF near(s, pe, merge_gap)
                    THEN MergeInto([merged EXCEPT ![Len(merged)] = <<ps, Max(pe, e)>>],
                                   Tail(segments), merge_gap)
                    ELSE MergeInto(Append(merged, <<s, e>>), Tail(segments), merge_gap)

\* A result that carries each segment one second later
as_tuples_shifted(merged) ==
    IF merged = <<>> THEN <<>>
    ELSE [i \in 1..Len(merged) |-> <<merged[i][1] + 1, merged[i][2] + 1>>]

\* Line 187: `[(s, e) for s, e in merged]`
as_tuples(merged) == merged

merge_segments(segments, merge_gap) ==
    IF segments = <<>> THEN <<>>
    ELSE as_tuples(MergeInto(<<>>, SortByStart(segments), merge_gap))

\* The sequences over S of length n at most
RECURSIVE SeqsUpTo(_, _)
SeqsUpTo(S, n) ==
    IF n = 0 THEN {<<>>}
    ELSE LET shorter == SeqsUpTo(S, n - 1)
         IN shorter \cup { Append(q, x) : q \in { r \in shorter : Len(r) = n - 1 }, x \in S }

Event(start_time, end_time) == [start_time |-> start_time, end_time |-> end_time]

\* The inputs followed: the events of a window with the options of a run, the event
\* times in ticks (0.5 s, 1.5 s and 3 s for the start; none, 0.0, 1.5 s and 3.5 s for
\* the end) ...
Events ==
    { Event(st, et) : st \in {None, Some(1), Some(3), Some(6)},
                      et \in {None, Some(0), Some(3), Some(7)} }

Options ==
    [window_after : 0..1, window_before : {3, 5}, pre_pad : 0..MaxPad, post_pad : 0..MaxPad,
     min_len : 0..MaxMinLen, merge_gap : {0, MaxGap}]

WithEvents(events, o) ==
    [NoSeg EXCEPT !.pc = "events", !.input = "events", !.events = events, !.window_after = o.window_after,
                  !.window_before = o.window_before, !.pre_pad = o.pre_pad,
                  !.post_pad = o.post_pad, !.min_len = o.min_len, !.merge_gap = o.merge_gap]

\* ... the events (100, 105) and (112, 115) in the window [0, 1000) with the default
\* options of frigate_segments.py ...
ExampleEvents ==
    << Event(Some(100 * Ticks), Some(105 * Ticks)), Event(Some(112 * Ticks), Some(115 * Ticks)) >>

ExampleRun ==
    WithEvents(ExampleEvents,
               [window_after |-> 0, window_before |-> 1000, pre_pad |-> 5, post_pad |-> 5,
                min_len |-> 2, merge_gap |-> 15])

\* ... and lists of segments with start <= end handed to merge_segments directly
Segments == { x \in (0..MaxSecond) \X (0..MaxSecond) : x[1] <= x[2] }

WithSegments(segments, merge_gap) ==
    [NoSeg EXCEPT !.pc = "segments", !.input = "segments", !.segments = segments,
                  !.merge_gap = merge_gap]

SegInit ==
    /\ EngineInit
    /\ PipesInit
    /\ request = NoRequest
    /\ src = NoSrc
    /\ parsing = NoParsed
    /\ tool = NoTool
    /\ \/ \E events \in SeqsUpTo(Events, MaxEvents), o \in Options : seg = WithEvents(events, o)
       \/ seg = ExampleRun
       \/ \E segments \in SeqsUpTo(Segments, MaxSegments), g \in 0..MaxGap :
              seg = WithSegments(segments, g)

\* frigate_segments.main, frigate_montage.main: segments from the events, ...
SegBuild ==
    /\ seg.pc = "events"
    /\ seg' = [seg EXCEPT !.pc = "segments",
                          !.segments = build_segments_from_events(
                              seg.events, seg.window_after, seg.window_before,
                              seg.pre_pad, seg.post_pad, seg.min_len)]
    /\ UNCHANGED not_seg

\* ... merged, ...
SegMerge ==
    /\ seg.pc = "segments"
    /\ seg' = [seg EXCEPT !.pc = "merged", !.merged = merge_segments(seg.segments, seg.merge_gap)]
    /\ UNCHANGED not_seg

\* ... and the merged list merged once more with the same gap
SegMergeAgain ==
    /\ seg.pc = "merged"
    /\ seg' = [seg EXCEPT !.pc = "done", !.again = merge_segments(seg.merged, seg.merge_gap)]
    /\ UNCHANGED not_seg

SegNext == SegBuild \/ SegMerge \/ SegMergeAgain

SegSpec == SegInit /\ [][SegNext]_vars

\* ------------------------------------------------------------- frigate_sources.py
MaxStamp == 6
SlopDen == 2
MaxCadenceGap == 60

\* Python's round() of the fraction num / den, num >= 0: the nearest integer, and the
\* even one of the two when both are equally near
round_down(num, den) == num \div den

round(num, den) ==
    LET q == num \div den
        r == num % den
    IN  IF 2 * r < den THEN q
        ELSE IF 2 * r > den THEN q + 1
        ELSE IF q % 2 = 0 THEN q ELSE q + 1

RECURSIVE InsertStamp(_, _)
InsertStamp(x, sorted) ==
    IF sorted = <<>> THEN <<x>>
    ELSE IF x < Head(sorted) THEN <<x>> \o sorted
    ELSE <<Head(sorted)>> \o InsertStamp(x, Tail(sorted))

\* entries.sort(key=lambda x: x[0]), and sorted() inside statistics.median
RECURSIVE SortStamps(_)
SortStamps(S) ==
    IF S = {} THEN <<>>
    ELSE LET x == CHOOSE y \in S : TRUE IN InsertStamp(x, SortStamps(S \ {x}))

RECURSIVE SortInts(_)
SortInts(q) == IF q = <<>> THEN <<>> ELSE InsertStamp(Head(q), SortInts(Tail(q)))

\* The steps between consecutive chunks that count for the cadence
RECURSIVE Diffs(_)
Diffs(entries) ==
    IF Len(entries) < 2 THEN <<>>
    ELSE LET d == entries[2] - entries[1]
         IN  (IF 0 < d /\ d <= MaxCadenceGap THEN <<d>> ELSE <<>>) \o Diffs(Tail(entries))

\* The lower of the two middle values, as the number of halves
median_low(diffs) ==
    LET s == SortInts(diffs)
    IN  2 * s[(Len(s) + 1) \div 2]

\* statistics.median, as the number of halves: the middle value, or the mean of the
\* two middle values
median(diffs) ==
    LET s == SortInts(diffs)
        n == Len(s)
    IN  IF n % 2 = 1 THEN 2 * s[(n + 1) \div 2] ELSE s[n \div 2] + s[n \div 2 + 1]

scan_index(disk) ==
    IF ~disk.present THEN
        [index |-> <<>>, cadence |-> None, err |-> "recordings path not found"]
    ELSE IF disk.stamps = {} THEN
        [index |-> <<>>, cadence |-> None, err |-> "no recordings found in scanned folders"]
    ELSE LET entries == SortStamps(disk.stamps)
             diffs == Diffs(entries)
         IN  [index |-> entries,
              cadence |-> IF diffs = <<>> THEN None ELSE Some(round(median(diffs), 2)),
              err |-> Null]

\* A search that stops short of the chunk that starts at seg_start
RECURSIVE last_before(_, _, _, _, _)
last_before(index, seg_start, lo, hi, pos) ==
    IF lo > hi THEN pos
    ELSE LET mid == (lo + hi) \div 2
         IN  IF index[mid] < seg_start
                 THEN last_before(index, seg_start, mid + 1, hi, mid)
                 ELSE last_before(index, seg_start, lo, mid - 1, pos)

\* The binary search of find_files_for_segment; positions count from 1, pos = 0: none
RECURSIVE last_at_or_before(_, _, _, _, _)
last_at_or_before(index, seg_start, lo, hi, pos) ==
    IF lo > hi THEN pos
    ELSE LET mid == (lo + hi) \div 2
         IN  IF index[mid] <= seg_start
                 THEN last_at_or_before(index, seg_start, mid + 1, hi, mid)
                 ELSE last_at_or_before(index, seg_start, lo, mid - 1, pos)

\* while i < len(index) and index[i][0] < seg_end
RECURSIVE chunks_before(_, _, _)
chunks_before(index, i, seg_end) ==
    IF i <= Len(index) /\ index[i] < seg_end
        THEN <<index[i]>> \o chunks_before(index, i + 1, seg_end)
        ELSE <<>>

\* int(round(slop_mult * cadence)), the multiplier counted in 1/SlopDen
tolerance(slop_mult, cadence) == round(slop_mult * cadence, SlopDen)

Rejected(reason) == [chosen |-> <<>>, reason |-> reason]

find_files_for_segment(index, cadence, seg_start, seg_end, start_slop_mult, end_slop_mult) ==
    IF index = <<>> THEN Rejected("empty index")
    ELSE LET pos == last_at_or_before(index, seg_start, 1, Len(index), 0)
         IN  IF pos < 1 THEN Rejected("no chunk starts before segment start")
             ELSE LET found == chunks_before(index, pos, seg_end)
                      selected == IF found = <<>> THEN <<index[pos]>> ELSE found
                      first_ts == selected[1]
                      last_ts == selected[Len(selected)]
                  IN  IF cadence # None
                         /\ seg_start > first_ts + tolerance(start_slop_mult, cadence[1])
                          THEN Rejected("gap before start")
                      ELSE IF cadence # None
                              /\ seg_end > last_ts + tolerance(end_slop_mult, cadence[1])
                          THEN Rejected("end beyond chunks")
                      ELSE [chosen |-> selected, reason |-> Null]

BaseUrl == "http://frigate:5000"
Camera == "front"

\* utils.vod_url: the template filled in, as the parts of the path
vod_url_swapped(base_url, camera, start, end) ==
    <<base_url, "vod", camera, "start", end, "end", start, "master.m3u8">>

vod_url(base_url, camera, start, end) ==
    <<base_url, "vod", camera, "start", start, "end", end, "master.m3u8">>

DiskEntry(s, e, files, cadence) ==
    [start |-> s, end |-> e, type |-> "disk", files |-> files, cadence |-> cadence,
     url |-> <<>>, reason |-> Null]

VodEntry(s, e, url, reason) ==
    [start |-> s, end |-> e, type |-> "vod", files |-> <<>>, cadence |-> None,
     url |-> url, reason |-> reason]

\* The inputs followed: the chunks on disk, ...
ChunkTimes == {0, 1, 4, MaxCadenceGap + 10}

\* ... the segments of a segments document, sorted and apart as merge_segments leaves
\* them, ...
SourceSegments ==
    LET one == { x \in (0..MaxStamp) \X (0..MaxStamp) : x[1] <= x[2] }
    IN  {<<>>} \cup { <<x>> : x \in one }
               \cup { q \in one \X one : q[1][2] < q[2][1] }

\* ... the options, the slop multipliers 0.5, 1.5, 2.0 and 1.5, 4.0 ...
Sources ==
    { [NoSrc EXCEPT !.pc = "args", !.no_disk = nd, !.source = so, !.disk = d,
                    !.start_slop = ss, !.end_slop = es, !.segments = sg] :
        nd \in BOOLEAN, so \in {"disk", "vod"},
        d \in {Recordings(FALSE, {})} \cup { Recordings(TRUE, st) : st \in SUBSET ChunkTimes },
        ss \in {1, 3, 2 * SlopDen}, es \in {3, 4 * SlopDen}, sg \in SourceSegments }

\* ... and chunks 30 s apart with the default multipliers 2.0 and 4.0
ExampleSources ==
    { [NoSrc EXCEPT !.pc = "args", !.disk = Recordings(TRUE, {1000, 1030}),
                    !.start_slop = 2 * SlopDen, !.end_slop = 4 * SlopDen,
                    !.segments = << <<s, e>> >>] :
        s \in {1090, 1091}, e \in {1150, 1151} }

\* ... and chunks whose steps have a median that ends in .5
CadenceSources ==
    { [NoSrc EXCEPT !.pc = "args", !.disk = Recordings(TRUE, st),
                    !.start_slop = 2 * SlopDen, !.end_slop = 4 * SlopDen,
                    !.segments = << <<s, e>> >>] :
        st \in { {0, 1, 3}, {0, 2, 5}, {0, 2, 5, 6 + MaxCadenceGap} }, s \in {0, 2}, e \in {3, 6} }

\* main up to the loop: --no-disk, the scan, and the switch to VOD when nothing is found
SrcScan ==
    /\ src.pc = "args"
    /\ LET source == IF src.no_disk THEN "vod" ELSE src.source
           scan == IF source = "disk" THEN scan_index(src.disk)
                   ELSE [index |-> <<>>, cadence |-> None, err |-> Null]
       IN  src' = [src EXCEPT !.pc = "loop",
                              !.source = IF source = "disk" /\ scan.index = <<>> THEN "vod"
                                         ELSE source,
                              !.disk_index = scan.index, !.cadence = scan.cadence,
                              !.disk_err = scan.err]
    /\ UNCHANGED not_src

\* One turn of `for (s, e) in segments`
SrcResolve ==
    /\ src.pc = "loop"
    /\ src.n < Len(src.segments)
    /\ LET s == src.segments[src.n + 1][1]
           e == src.segments[src.n + 1][2]
           r == IF src.disk_index # <<>>
                    THEN find_files_for_segment(src.disk_index, src.cadence, s, e,
                                                src.start_slop, src.end_slop)
                    ELSE Rejected(IF Truthy(src.disk_err) THEN src.disk_err ELSE "disk disabled")
       IN  IF src.source = "vod" THEN
               src' = [src EXCEPT !.n = @ + 1, !.call = NoCall,
                                  !.resolved = Append(@, VodEntry(s, e, vod_url(BaseUrl, Camera, s, e),
                                                                  "source=vod"))]
           ELSE IF r.chosen # <<>> THEN
               src' = [src EXCEPT !.n = @ + 1,
                                  !.call = [called |-> src.disk_index # <<>>, chosen |-> r.chosen,
                                            reason |-> r.reason],
                                  !.resolved = Append(@, DiskEntry(s, e, r.chosen, src.cadence))]
           ELSE
               src' = [src EXCEPT !.n = @ + 1,
                                  !.call = [called |-> src.disk_index # <<>>, chosen |-> r.chosen,
                                            reason |-> r.reason],
                                  !.disk_failures = Append(@, <<s, e, r.reason>>)]
    /\ UNCHANGED not_src

\* The manifest: the resolved entries and the counts
SrcManifest ==
    /\ src.pc = "loop"
    /\ src.n = Len(src.segments)
    /\ src' = [src EXCEPT !.pc = "done", !.call = NoCall,
                          !.stats = << Len(src.segments),
                                       IF src.source = "disk" THEN Len(src.disk_failures) ELSE 0,
                                       Len(SelectSeq(src.resolved, LAMBDA x : x.type = "disk")),
                                       Len(SelectSeq(src.resolved, LAMBDA x : x.type = "vod")),
                                       Len(src.disk_index) >>]
    /\ UNCHANGED not_src

SrcInit ==
    /\ EngineInit
    /\ PipesInit
    /\ request = NoRequest
    /\ seg = NoSeg
    /\ parsing = NoParsed
    /\ tool = NoTool
    /\ src \in Sources \cup ExampleSources \cup CadenceSources

SrcNext == SrcScan \/ SrcResolve \/ SrcManifest

SrcSpec == SrcInit /\ [][SrcNext]_vars

\* ------------------------------------------------------------- worker.py: parse_progress alone
\* The keywords a line can hold, each set in one line
KeywordSets ==
    { {}, {"segment"}, {"segment", "found"}, {"segment", "total", "concat"}, {"concat", "ffmpeg"},
      {"running:"}, {"ffmpeg", "done:"}, {"done:", "error"}, {"failed"}, {"error"} }

\* The lines followed: every combination of the patterns and keywords a line can match
\* at once, with the percentages 45.0 and 150.0 and the counters 1234/5678 and 5/0 ...
ParseLines ==
    { Line("line", pct, cnt, extract, encode, kw, bracket, Null, Null, Null) :
        pct \in {NoPct, 4500, 15000}, cnt \in {<<>>, <<1234, 5678>>, <<5, 0>>},
        extract \in BOOLEAN, encode \in BOOLEAN, kw \in KeywordSets, bracket \in BOOLEAN }
    \cup { Line("", NoPct, <<>>, FALSE, FALSE, {}, FALSE, Null, Null, Null) }

\* ... read when the progress of the job is one of these
Progresses ==
    { [phase |-> ph, percent |-> pc, message |-> m] :
        ph \in {"", "render", "extract"}, pc \in {0, 4500}, m \in {"", "earlier"} }

ParseInit ==
    /\ EngineInit
    /\ PipesInit
    /\ request = NoRequest
    /\ seg = NoSeg
    /\ src = NoSrc
    /\ tool = NoTool
    /\ \E line \in ParseLines, cur \in Progresses :
          parsing = [pc |-> "line", line |-> line, cur |-> cur, out |-> cur]

\* run_job: new_progress = parse_progress(line_str, progress)
ParseLine ==
    /\ parsing.pc = "line"
    /\ parsing' = [parsing EXCEPT !.pc = "parsed", !.out = parse_progress(parsing.line, parsing.cur)]
    /\ UNCHANGED not_parsed

ParseNext == ParseLine

ParseSpec == ParseInit /\ [][ParseNext]_vars

\* ------------------------------------------------------------- utils.py: atempo_chain_for_speed
MaxSpeed == 28
SpeedDen == 16

\* A float that is a fraction num / den of small whole numbers, den > 0.  The speeds
\* followed are multiples of 1/SpeedDen and are only ever halved, so every operation on
\* them is exact in binary floating point, and no value is within 1e-9 of 1.0 or 2.0
\* without being equal to it.
Frac(num, den) == <<num, den>>
Less(a, b) == a[1] * b[2] < b[1] * a[2]
Same(a, b) == a[1] * b[2] = b[1] * a[2]
Halved(a) == Frac(a[1], 2 * a[2])
FracMin(a, b) == IF Less(a, b) THEN a ELSE b
FracMax(a, b) == IF Less(a, b) THEN b ELSE a

\* while remaining > 2.0 + 1e-9: factors.append(2.0); remaining /= 2.0
RECURSIVE halve_while_above_two(_, _)
halve_while_above_two(remaining, factors) ==
    IF Less(Frac(2, 1), remaining)
        THEN halve_while_above_two(Halved(remaining), Append(factors, Frac(2, 1)))
        ELSE [remaining |-> remaining, factors |-> factors]

atempo_chain_for_speed(speed) ==
    LET r == halve_while_above_two(speed, <<>>)
    IN  IF ~Same(r.remaining, Frac(1, 1))
            THEN Append(r.factors, FracMax(Frac(1, 2), FracMin(Frac(2, 1), r.remaining)))
            ELSE r.factors

\* The speeds followed: every multiple of 1/SpeedDen up to MaxSpeed
Speeds == { Frac(n, SpeedDen) : n \in 1..(MaxSpeed * SpeedDen) }

TempoInit ==
    /\ EngineInit
    /\ PipesInit
    /\ request = NoRequest
    /\ seg = NoSeg
    /\ src = NoSrc
    /\ parsing = NoParsed
    /\ \E speed \in Speeds :
          tool = [fn |-> "atempo_chain_for_speed", pc |-> "call", arg |-> speed, out |-> <<>>]

\* run_ffmpeg, build_ffmpeg_cmd: factors = atempo_chain_for_speed(float(timelapse))
AtempoChain ==
    /\ tool.fn = "atempo_chain_for_speed"
    /\ tool.pc = "call"
    /\ tool' = [tool EXCEPT !.pc = "done", !.out = atempo_chain_for_speed(tool.arg)]
    /\ UNCHANGED not_tool

TempoNext == AtempoChain

TempoSpec == TempoInit /\ [][TempoNext]_vars

\* ------------------------------------------------------------- frigate_render.py, frigate_timelapse.py: the ffmpeg command
\* A command is the list of its words.  The words that carry a number or a path of the
\* run are written <so>; the options and the words "copy", "aac" and the encoder names
\* are themselves.  Only the encoders argparse lets through are followed, so the
\* "Unsupported encoder" exits are not reached.
Nvenc == {"h264_nvenc", "hevc_nvenc"}
Qsv == {"hevc_qsv", "h264_qsv"}
Vaapi == {"hevc_vaapi", "h264_vaapi"}

\* run_ffmpeg with the two lines under "timelapse always encodes" left out
run_ffmpeg_as_asked(copy_mode, copy_audio, timelapse, timelapse_audio, encoder) ==
    LET video == IF copy_mode THEN <<"-c:v", "copy">>
                 ELSE IF encoder \in Nvenc THEN
                     <<"-r", "<fps>", "-c:v", encoder, "-preset", "<preset>", "-rc:v", "<rc>",
                       "-cq:v", "<cq>", "-b:v", "<bv>", "-maxrate:v", "<maxrate>",
                       "-bufsize:v", "<bufsize>", "-spatial-aq", "1", "-temporal-aq", "1",
                       "-aq-strength", "<aq>", "-g", "<gop>">>
                     \o (IF encoder = "h264_nvenc" THEN <<"-profile:v", "<profile>">> ELSE <<>>)
                 ELSE <<"-r", "<fps>", "-c:v", encoder, "-preset", "<preset>", "-crf", "<crf>",
                        "-g", "<gop>">>
        setpts == IF timelapse # None THEN <<"-filter:v", "setpts=PTS/<timelapse>">> ELSE <<>>
        audio == IF timelapse # None /\ ~timelapse_audio THEN <<"-an">>
                 ELSE (IF copy_mode /\ copy_audio THEN <<"-c:a", "copy">>
                       ELSE <<"-c:a", "aac", "-b:a", "<bitrate>", "-ac", "<channels>",
                              "-ar", "<rate>">>)
                      \o (IF timelapse # None /\ timelapse_audio
                              THEN <<"-filter:a", "<atempo chain>">> ELSE <<>>)
    IN  <<"ffmpeg", "-y", "-protocol_whitelist", "<whitelist>", "-f", "concat", "-safe", "0",
          "-i", "<concat>">>
        \o video \o setpts \o audio \o <<"-movflags", "+faststart", "<out>">>

run_ffmpeg(copy_mode, copy_audio, timelapse, timelapse_audio, encoder) ==
    LET copy_mode_ == IF timelapse # None THEN FALSE ELSE copy_mode
        copy_audio_ == IF timelapse # None THEN FALSE ELSE copy_audio
        video == IF copy_mode_ THEN <<"-c:v", "copy">>
                 ELSE IF encoder \in Nvenc THEN
                     <<"-r", "<fps>", "-c:v", encoder, "-preset", "<preset>", "-rc:v", "<rc>",
                       "-cq:v", "<cq>", "-b:v", "<bv>", "-maxrate:v", "<maxrate>",
                       "-bufsize:v", "<bufsize>", "-spatial-aq", "1", "-temporal-aq", "1",
                       "-aq-strength", "<aq>", "-g", "<gop>">>
                     \o (IF encoder = "h264_nvenc" THEN <<"-profile:v", "<profile>">> ELSE <<>>)
                 ELSE <<"-r", "<fps>", "-c:v", encoder, "-preset", "<preset>", "-crf", "<crf>",
                        "-g", "<gop>">>
        setpts == IF timelapse # None THEN <<"-filter:v", "setpts=PTS/<timelapse>">> ELSE <<>>
        audio == IF timelapse # None /\ ~timelapse_audio THEN <<"-an">>
                 ELSE (IF copy_mode_ /\ copy_audio_ THEN <<"-c:a", "copy">>
                       ELSE <<"-c:a", "aac", "-b:a", "<bitrate>", "-ac", "<channels>",
                              "-ar", "<rate>">>)
                      \o (IF timelapse # None /\ timelapse_audio
                              THEN <<"-filter:a", "<atempo chain>">> ELSE <<>>)
    IN  <<"ffmpeg", "-y", "-protocol_whitelist", "<whitelist>", "-f", "concat", "-safe", "0",
          "-i", "<concat>">>
        \o video \o setpts \o audio \o <<"-movflags", "+faststart", "<out>">>

\* frigate_render.main, frigate_montage.main: "Decide actual mode", then run_ffmpeg
render_main(args) ==
    LET copy_mode == IF args.timelapse # None \/ args.encode THEN FALSE ELSE args.copy
        copy_audio == IF args.timelapse # None \/ args.encode THEN FALSE ELSE args.copy_audio
    IN  run_ffmpeg(copy_mode /\ ~args.encode, copy_audio, args.timelapse, args.timelapse_audio,
                   args.encoder)

\* frigate_timelapse.build_ffmpeg_cmd
build_video_filter(a, use_hw_upload, use_cuda_scale) ==
    (IF a.sample_interval # None /\ a.sample_interval[1] > 0
         THEN <<"select=first frame", "setpts=N/<fps>/TB">>
     ELSE IF a.frame_sample # None /\ a.frame_sample[1] > 0
         THEN <<"select=every <frame_sample>", "setpts=N/<fps>/TB">>
     ELSE <<"setpts=PTS/<timelapse>">>)
    \o (IF a.scale THEN (IF use_cuda_scale THEN <<"scale_npp=<scale>">> ELSE <<"scale=<scale>">>)
        ELSE <<>>)
    \o (IF use_hw_upload THEN <<"format=nv12", "hwupload">> ELSE <<>>)

build_ffmpeg_cmd(a) ==
    LET cuda == a.use_cuda /\ a.encoder \in Nvenc
        codec ==
            IF a.encoder \in Nvenc THEN
                <<"-filter:v">> \o build_video_filter(a, FALSE, a.use_cuda /\ a.scale)
                \o <<"-c:v", a.encoder, "-preset", "<preset>", "-rc:v", "vbr_hq", "-cq:v", "<cq>",
                     "-b:v", "0", "-maxrate:v", "<maxrate>", "-bufsize:v", "<bufsize>">>
            ELSE IF a.encoder \in Qsv THEN
                <<"-init_hw_device", "qsv=hw", "-filter_hw_device", "hw", "-filter:v">>
                \o build_video_filter(a, TRUE, FALSE)
                \o <<"-c:v", a.encoder, "-preset", "<preset>", "-global_quality", "<cq>">>
            ELSE IF a.encoder \in Vaapi THEN
                <<"-vaapi_device", "<device>", "-filter:v">> \o build_video_filter(a, TRUE, FALSE)
                \o <<"-c:v", a.encoder, "-qp", "<cq>">>
            ELSE <<"-filter:v">> \o build_video_filter(a, FALSE, FALSE)
                 \o <<"-c:v", a.encoder, "-preset", "<preset>", "-crf", "<crf>">>
        pix_fmt == IF a.encoder \in Qsv \cup Vaapi THEN <<"-pix_fmt", "nv12">>
                   ELSE IF ~cuda THEN <<"-pix_fmt", "yuv420p">> ELSE <<>>
        audio == IF a.keep_audio THEN <<"-filter:a", "<atempo chain>">> ELSE <<"-an">>
    IN  <<"ffmpeg", "-y">>
        \o (IF cuda THEN <<"-hwaccel", "cuda", "-hwaccel_output_format", "cuda">> ELSE <<>>)
        \o <<"-f", "concat", "-safe", "0", "-i", "<concat>", "-r", "<fps>">>
        \o codec \o pix_fmt \o audio \o <<"-movflags", "+faststart", "<out>">>

\* The options followed: of frigate_render.py (and of a direct call of run_ffmpeg) ...
RenderArgs ==
    [copy : BOOLEAN, copy_audio : BOOLEAN, encode : BOOLEAN,
     timelapse : {None, Some(Frac(25, 1)), Some(Frac(1, 2))}, timelapse_audio : BOOLEAN,
     encoder : {"h264_nvenc", "hevc_nvenc", "libx264"}]

\* ... and of frigate_timelapse.py, whose --timelapse has a default and is always set
TimelapseArgs ==
    [frame_sample : {None, Some(10)}, sample_interval : {None, Some(0), Some(60)},
     encoder : {"hevc_nvenc", "hevc_qsv", "hevc_vaapi", "libx265"}, keep_audio : BOOLEAN,
     scale : BOOLEAN, use_cuda : BOOLEAN]

CmdInit ==
    /\ EngineInit
    /\ PipesInit
    /\ request = NoRequest
    /\ seg = NoSeg
    /\ src = NoSrc
    /\ parsing = NoParsed
    /\ \/ \E fn \in {"run_ffmpeg", "render_main"}, a \in RenderArgs :
              tool = [fn |-> fn, pc |-> "call", arg |-> a, out |-> <<>>]
       \/ \E a \in TimelapseArgs :
              tool = [fn |-> "build_ffmpeg_cmd", pc |-> "call", arg |-> a, out |-> <<>>]

RunFfmpeg ==
    /\ tool.fn = "run_ffmpeg"
    /\ tool.pc = "call"
    /\ tool' = [tool EXCEPT !.pc = "done",
                            !.out = run_ffmpeg(tool.arg.copy, tool.arg.copy_audio, tool.arg.timelapse,
                                               tool.arg.timelapse_audio, tool.arg.encoder)]
    /\ UNCHANGED not_tool

RenderMain ==
    /\ tool.fn = "render_main"
    /\ tool.pc = "call"
    /\ tool' = [tool EXCEPT !.pc = "done", !.out = render_main(tool.arg)]
    /\ UNCHANGED not_tool

BuildFfmpegCmd ==
    /\ tool.fn = "build_ffmpeg_cmd"
    /\ tool.pc = "call"
    /\ tool' = [tool EXCEPT !.pc = "done", !.out = build_ffmpeg_cmd(tool.arg)]
    /\ UNCHANGED not_tool

CmdNext == RunFfmpeg \/ RenderMain \/ BuildFfmpegCmd

CmdSpec == CmdInit /\ [][CmdNext]_vars

\* ------------------------------------------------------------- the output file of a run
L_wrote == Line("Wrote 12 entries to /montages/list.m3u", NoPct, <<>>, FALSE, FALSE, {}, FALSE,
                Null, Null, "/montages/list.m3u")
L_gone == Line("DONE: /montages/gone.mp4", NoPct, <<>>, FALSE, FALSE, {"done:"}, FALSE,
               "/montages/gone.mp4", Null, Null)

\* What the children print in the runs followed for the output file: two markers that
\* name files that exist, one that names a file that does not, and a line without one
OutputLines == {L_out, L_wrote, L_gone, L_dbg}

\* The child of task p writes one line to its stdout
ProcPrint(p, line) ==
    /\ p \in DOMAIN procs
    /\ procs[p].state = "alive"
    /\ emitted < MaxWritten
    /\ emitted' = emitted + 1
    /\ stdout' = [stdout EXCEPT ![p] = Append(@, [seq |-> emitted + 1, line |-> line])]
    /\ written' = [written EXCEPT ![p] = Append(@, line)]
    /\ ret' = NoRet
    /\ line_in' = NoLine
    /\ delivered' = <<>>
    /\ UNCHANGED <<up, restarts, store, next_id, running_jobs, progress_callbacks, tasks,
                   procs, lines_read, received>>
    /\ UNCHANGED not_pipes

\* Lines 329-331: readline returns b"" once the pipe is empty and the child, which
\* holds the write end until it exits, has exited
RunJobReadEOF(t) ==
    /\ t \in DOMAIN procs
    /\ procs[t].state = "exited"
    /\ stdout[t] = <<>>
    /\ RunJobEOF(t)

\* The runs followed for the output file: jobs created and started through the API,
\* children that write lines and exit, tasks that read to the end of the output
OutputNext ==
    \/ Startup
    \/ ApiCreateJob(JobCreate(next_id + 1))
    \/ \E t \in TaskIds : RunJobStart(t)
    \/ \E t \in TaskIds : RunJobExec(t)
    \/ \E t \in TaskIds : RunJobSpawned(t)
    \/ \E p \in TaskIds, line \in OutputLines : ProcPrint(p, line)
    \/ \E t \in TaskIds : RunJobRead(t)
    \/ \E p \in TaskIds, rc \in ExitCodes : ProcExit(p, rc)
    \/ \E t \in TaskIds : RunJobReadEOF(t)

OutputSpec == Init /\ [][OutputNext]_vars

\* ------------------------------------------------------------- frigate_sources.py: the folders scanned
\* Times are epoch seconds.  A folder recordings/YYYY-MM-DD/HH/<camera> is named by
\* the number of its hour since the epoch, and a file by its folder and its name:
\* MM.SS.mp4 (kind "mmss", a = MM, b = SS), <epoch>.mp4 (kind "epoch", a = the number)
\* or an .mp4 name of neither form (kind "other").
Hour == 3600

File(hour, kind, a, b) == [hour |-> hour, kind |-> kind, a |-> a, b |-> b]

\* Lines 56-62, a step of one hour that starts at the hour of start_utc and goes on
\* while cur < end_utc
RECURSIVE hours_until(_, _)
hours_until(cur, end_utc) ==
    IF cur * Hour < end_utc THEN {cur} \cup hours_until(cur + 1, end_utc) ELSE {}

iter_utc_hours(start_utc, end_utc) == hours_until(start_utc \div Hour, end_utc)

\* Lines 65-83; None: the name is not a timestamp
parse_filename_ts(f) ==
    IF f.kind = "epoch" THEN Some(f.a)
    ELSE IF f.kind = "mmss" /\ f.a \in 0..59 /\ f.b \in 0..59
        THEN Some(f.hour * Hour + f.a * 60 + f.b)
    ELSE None

\* Lines 94-110: the entries collected from the folders of iter_utc_hours
scan_entries(files, start_utc, end_utc, after_ts, before_ts) ==
    { [ts |-> parse_filename_ts(f)[1], file |-> f] :
        f \in { g \in files :
                  /\ g.hour \in iter_utc_hours(start_utc, end_utc)
                  /\ parse_filename_ts(g) # None
                  /\ ~(parse_filename_ts(g)[1] < after_ts - Hour
                         \/ parse_filename_ts(g)[1] > before_ts + Hour) } }

\* The windows and the files followed: windows that start on the hour, just after it
\* and just before the next one; files in the hour before the window, inside it and
\* after it, one with an epoch name, one far away and one that is no timestamp
ScanAfters == {Hour, Hour + 10, 2 * Hour - 10}
ScanBefores == {Hour + 20, 2 * Hour, 2 * Hour + 30}
ScanFiles ==
    { File(0, "mmss", 59, 55), File(1, "mmss", 0, 10), File(1, "mmss", 59, 50),
      File(2, "mmss", 0, 20), File(1, "epoch", Hour + 15, 0), File(1, "epoch", 6 * Hour, 0),
      File(1, "other", 0, 0) }

ScanInit ==
    /\ EngineInit
    /\ PipesInit
    /\ request = NoRequest
    /\ seg = NoSeg
    /\ src = NoSrc
    /\ parsing = NoParsed
    /\ \E after \in ScanAfters, before \in ScanBefores, files \in SUBSET ScanFiles :
          /\ after < before
          /\ tool = [fn |-> "scan_index", pc |-> "call",
                     arg |-> [after |-> after, before |-> before, files |-> files],
                     out |-> {}]

\* main 211-226: start_utc and end_utc are the window itself
ScanEntries ==
    /\ tool.fn = "scan_index"
    /\ tool.pc = "call"
    /\ tool' = [tool EXCEPT !.pc = "done",
                            !.out = scan_entries(tool.arg.files, tool.arg.after, tool.arg.before,
                                                 tool.arg.after, tool.arg.before)]
    /\ UNCHANGED not_tool

ScanNext == ScanEntries

ScanSpec == ScanInit /\ [][ScanNext]_vars

\* ------------------------------------------------------------- frigate_render.py: build_concat_entries
MaxManifest == 3    \* the segments of a manifest
MaxFiles == 2       \* the files of a disk source

\* f"file '{p}'\n": a line of the concat file
concat_line(p) == <<"file '", p, "'\n">>

\* A step that appends whatever comes
append_always(acc, p) == [entries |-> Append(acc.entries, concat_line(p)), last |-> p]

\* Lines 139-142, 145-147: `if p == last: continue`, else append the line and remember p
append_unless_last(acc, p) ==
    IF p = acc.last THEN acc
    ELSE [entries |-> Append(acc.entries, concat_line(p)), last |-> p]

\* Lines 138-142: `for p in src["files"]`
RECURSIVE concat_files(_, _)
concat_files(acc, files) ==
    IF files = <<>> THEN acc
    ELSE concat_files(append_unless_last(acc, Head(files)), Tail(files))

\* Lines 135-147: `for seg in manifest["segments"]`
RECURSIVE concat_segments(_, _)
concat_segments(acc, segments) ==
    IF segments = <<>> THEN acc
    ELSE LET source == Head(segments)
         IN  concat_segments(IF source.type = "disk" THEN concat_files(acc, source.files)
                             ELSE append_unless_last(acc, source.url),
                             Tail(segments))

build_concat_entries(manifest) ==
    concat_segments([entries |-> <<>>, last |-> Null], manifest).entries

\* The sources followed: disk sources of one or two files and stream sources, over
\* two paths and two URLs
ManifestPaths == {"/rec/00.00.mp4", "/rec/00.10.mp4"}
ManifestUrls == {"http://frigate:5000/vod/a", "http://frigate:5000/vod/b"}
ManifestSources ==
    { [type |-> "disk", files |-> f, url |-> Null] :
        f \in UNION { [1..n -> ManifestPaths] : n \in 1..MaxFiles } }
    \cup { [type |-> "vod", files |-> <<>>, url |-> u] : u \in ManifestUrls }
Manifests == UNION { [1..n -> ManifestSources] : n \in 0..MaxManifest }

ConcatInit ==
    /\ EngineInit
    /\ PipesInit
    /\ request = NoRequest
    /\ seg = NoSeg
    /\ src = NoSrc
    /\ parsing = NoParsed
    /\ \E m \in Manifests :
          tool = [fn |-> "build_concat_entries", pc |-> "call", arg |-> m, out |-> <<>>]

\* frigate_render.main: entries = build_concat_entries(manifest)
BuildConcatEntries ==
    /\ tool.fn = "build_concat_entries"
    /\ tool.pc = "call"
    /\ tool' = [tool EXCEPT !.pc = "done", !.out = build_concat_entries(tool.arg)]
    /\ UNCHANGED not_tool

ConcatNext == BuildConcatEntries

ConcatSpec == ConcatInit /\ [][ConcatNext]_vars

\* ------------------------------------------------------------- frigate_timelapse.py: generate_vod_segments
MaxWindow == 4      \* the latest `before` of a window
MaxHalves == 5      \* the largest sample interval, in halves of a second
IntervalDen == 2
MaxChunks == MaxWindow + 2   \* chunks collected before the loop is no longer followed

\* int(sample_interval) of a positive interval of n / IntervalDen seconds
int(n) == n \div IntervalDen

\* Lines 109-114
is_in_sun_windows(ts, windows) ==
    \E i \in 1..Len(windows) : windows[i][1] <= ts /\ ts < windows[i][2]

\* The windows and intervals followed: after < before, an interval > 0, and no sun
\* windows (None), one, or two
VodWindows ==
    { [after |-> a, before |-> b, sample_interval |-> n, sun_windows |-> w] :
        a \in 0..MaxWindow, b \in 0..MaxWindow, n \in 1..MaxHalves,
        w \in {None, Some(<< <<1, 3>> >>), Some(<< <<0, 1>>, <<2, MaxWindow>> >>)} }

VodInit ==
    /\ EngineInit
    /\ PipesInit
    /\ request = NoRequest
    /\ seg = NoSeg
    /\ src = NoSrc
    /\ parsing = NoParsed
    /\ \E a \in VodWindows :
          /\ a.after < a.before
          /\ tool = [fn |-> "generate_vod_segments", pc |-> "loop", arg |-> a,
                     out |-> [current_ts |-> a.after, segments |-> <<>>]]

\* Lines 128-136: one turn of `while current_ts < before`
VodChunk ==
    /\ tool.fn = "generate_vod_segments"
    /\ tool.pc = "loop"
    /\ tool.out.current_ts < tool.arg.before
    /\ Len(tool.out.segments) < MaxChunks
    /\ LET current_ts == tool.out.current_ts
           chunk_end == Min(current_ts + int(tool.arg.sample_interval), tool.arg.before)
           url == vod_url(BaseUrl, Camera, current_ts, chunk_end)
           wanted == tool.arg.sun_windows = None
                        \/ is_in_sun_windows(current_ts, tool.arg.sun_windows[1])
       IN  tool' = [tool EXCEPT
                       !.out.segments = IF wanted THEN Append(@, <<current_ts, url>>) ELSE @,
                       !.out.current_ts = current_ts + int(tool.arg.sample_interval)]
    /\ UNCHANGED not_tool

\* Lines 128, 138: the loop ends and the list is returned
VodReturn ==
    /\ tool.fn = "generate_vod_segments"
    /\ tool.pc = "loop"
    /\ ~(tool.out.current_ts < tool.arg.before)
    /\ tool' = [tool EXCEPT !.pc = "done"]
    /\ UNCHANGED not_tool

VodNext == VodChunk \/ VodReturn

VodSpec == VodInit /\ [][VodNext]_vars

\* The interpreter takes the next step of the function as long as there is one
VodFairSpec == VodSpec /\ WF_vars(VodChunk) /\ WF_vars(VodReturn)

\* ------------------------------------------------------------- properties
JobsOf(st) == DOMAIN st

Live(t) == t \in 1..Len(tasks) /\ tasks[t].pc # "done"

\* The step in which task t ends by cancellation; the cancel_job calls that await
\* it return True in the same step.
CancelDelivered(t) ==
    /\ Live(t)
    /\ tasks[t].must_cancel
    /\ up'
    /\ tasks'[t].pc = "done"

\* The step in which task t ends because its child has exited
ExitHandled(t) ==
    /\ Live(t)
    /\ tasks[t].pc \in {"read", "wait"}
    /\ ~tasks[t].must_cancel
    /\ up'
    /\ tasks'[t].pc = "done"

\* The step in which a task is created
TaskCreated == Len(tasks') = Len(tasks) + 1

\* The step in which a task reads one line of its child's output
LineRead == line_in'.task # 0

AllowedEdge(a, b) ==
    \/ a = b
    \/ a = PENDING /\ b \in {RUNNING, CANCELLED}
    \/ a = RUNNING /\ b \in {COMPLETED, FAILED, CANCELLED}

\* C1: the persisted status of a job changes only along pending->running,
\* running->completed, running->failed, running->cancelled and pending->cancelled;
\* a job that has left `running` or is terminal never becomes `running` again,
\* also when start(id) is called again.
C1_StatusEdges ==
    [][\A j \in JobsOf(store) :
          /\ j \in JobsOf(store')
          /\ AllowedEdge(store[j].status, store'[j].status)]_vars

C3_CancelPending ==
    /\ [][\A t \in TaskIds :
            CancelDelivered(t) /\ store[tasks[t].job].status = PENDING
                => store'[tasks[t].job].status = CANCELLED]_vars
    /\ [][\A t \in TaskIds :
            t \in DOMAIN procs' /\ t \notin DOMAIN procs
                => store[tasks[t].job].error # CancelledBeforeStart]_vars

\* C4: once the status of a job is completed, failed or cancelled, no later write
\* changes its status or its progress.
C4_TerminalIsLast ==
    [][\A j \in JobsOf(store) :
          store[j].status \in Terminal
              => /\ store'[j].status = store[j].status
                 /\ store'[j].progress = store[j].progress]_vars

\* C5: every job whose status is terminal has an output file or a non-empty error.
C5_OutputOrError ==
    \A j \in JobsOf(store) :
        store[j].status \in Terminal
            => store[j].output_file # Null \/ Truthy(store[j].error)

\* C6: the startup step leaves no job `running`: a job that was `running` is
\* `failed` with the restart error and otherwise as it was, no job is deleted, and
\* the jobs in any other status are unchanged.
C6_StartupRecovery ==
    [][~up /\ up'
          => /\ JobsOf(store') = JobsOf(store)
             /\ \A j \in JobsOf(store) :
                   /\ store'[j].status # RUNNING
                   /\ IF store[j].status = RUNNING
                      THEN /\ store'[j].status = FAILED
                           /\ store'[j].error = RestartError
                           /\ Truthy(store'[j].error)
                           /\ [store'[j] EXCEPT !.status = RUNNING,
                                                !.error = store[j].error,
                                                !.completed_at = store[j].completed_at]
                                  = store[j]
                      ELSE store'[j] = store[j]]_vars

C6_Witness ==
    /\ up
    /\ restarts > 0
    /\ \E j \in JobsOf(store) : store[j].status = FAILED /\ store[j].error = RestartError

TasksOf(j) == { t \in 1..Len(tasks) : tasks[t].job = j /\ tasks[t].pc # "done" }

\* C7: at every moment a job has at most one unfinished task; a task is created
\* for a job only when none is registered for it, and the step registers exactly
\* that one task.
C7_OneTaskPerJob ==
    /\ [](\A j \in JobIds : Cardinality(TasksOf(j)) <= 1)
    /\ [][TaskCreated
            => LET j == tasks'[Len(tasks')].job
               IN /\ running_jobs[j] = 0
                  /\ tasks' = Append(tasks, NewTask(j))
                  /\ running_jobs' = [running_jobs EXCEPT ![j] = Len(tasks')]]_vars

\* A registered, unfinished task while another task could still be created
C7_Witness ==
    \E j \in JobIds :
        /\ running_jobs[j] # 0
        /\ TasksOf(j) = {running_jobs[j]}
        /\ Len(tasks) < MaxTasks

\* C8: when the child of a running, not cancelled job has exited, the task's last
\* step sets `completed` on exit code 0, storing the output path if one was
\* discovered, and `failed` with an error that records the code otherwise; the
\* step creates no task, and a task for an existing job is created by a start
\* call only, which writes nothing to the store.
C8_ExitCode ==
    /\ [][\A t \in TaskIds :
            ExitHandled(t) /\ store[tasks[t].job].status = RUNNING
                => LET j == tasks[t].job
                       returncode == procs[t].returncode
                   IN /\ procs[t].state = "exited"
                      /\ ~TaskCreated
                      /\ running_jobs'[j] = 0
                      /\ IF returncode = 0
                         THEN /\ store'[j].status = COMPLETED
                              /\ store'[j].error = store[j].error
                              /\ store'[j].output_file =
                                     IF tasks[t].output_file # Null
                                     THEN tasks[t].output_file
                                     ELSE store[j].output_file
                         ELSE /\ store'[j].status = FAILED
                              /\ store'[j].error = ExitError(returncode)
                              /\ \A other \in -15..2 :
                                    other # returncode
                                        => ExitError(other) # store'[j].error
                              /\ store'[j].output_file = store[j].output_file]_vars
    /\ [][TaskCreated /\ tasks'[Len(tasks')].job \in JobsOf(store)
            => store' = store]_vars

C8_Witness ==
    /\ \E j \in JobsOf(store) :
          store[j].status = COMPLETED /\ store[j].output_file = L_out.output_path
    /\ \E j \in JobsOf(store) :
          store[j].status = FAILED /\ store[j].error = ExitError(1)

\* C9: a retry is served only for a failed or cancelled job; it creates a job with
\* a new identifier, status `pending` and the old job's type, camera and
\* arguments, and leaves every existing record unchanged.
C9_Retry ==
    [][ret'.op = "retry"
          => LET old == ret'.id
                 new == ret'.value
             IN /\ old \in JobsOf(store)
                /\ store[old].status \in {FAILED, CANCELLED}
                /\ new \notin JobsOf(store)
                /\ JobsOf(store') = JobsOf(store) \cup {new}
                /\ store'[new].id = new
                /\ store'[new].status = PENDING
                /\ store'[new].type = store[old].type
                /\ store'[new].camera = store[old].camera
                /\ store'[new].arguments = store[old].arguments
                /\ \A j \in JobsOf(store) : store'[j] = store[j]]_vars

C9_Witness ==
    /\ ret.op = "retry"
    /\ store[ret.id].status = FAILED
    /\ store[ret.value].status = PENDING
    /\ store[ret.value].arguments = store[ret.id].arguments

\* What the claims about the notifications of a line have in common: in a step
\* that reads a line, the observers of the job are each invoked once, with the
\* record as it is after the step, if `changed` holds of the progress parsed from
\* the line and the progress before it, and nothing is invoked otherwise.
NotifiedWhen(changed(_, _)) ==
    LineRead
        => LET t == line_in'.task
               j == tasks[t].job
               parsed == parse_progress(line_in'.line, tasks[t].progress)
           IN IF changed(parsed, tasks[t].progress)
              THEN /\ delivered' = notify_progress(progress_callbacks, store'[j])
                   /\ store'[j].progress = parsed
              ELSE delivered' = <<>>

\* C10, as stated: the observers are notified exactly when the parsed phase or
\* percent changes; a line that changes only the message triggers no notification.
C10_PhaseOrPercent ==
    [][NotifiedWhen(LAMBDA new, old : new.phase # old.phase \/ new.percent # old.percent)]_vars

\* C10, amended: the observers are notified exactly when the parsed progress
\* changes in phase, percent or message.
C10_AnyField ==
    [][NotifiedWhen(LAMBDA new, old : new # old)]_vars

\* A notification for a line that changed the message alone
C10_Witness ==
    /\ line_in.task # 0
    /\ line_in.line = L_out
    /\ delivered # <<>>
    /\ delivered[1].job.status = RUNNING
    /\ delivered[1].job.progress = [StartProgress EXCEPT !.message = L_out.text]

\* The step in which the persisted status of job j becomes terminal
BecomesTerminal(j) ==
    /\ j \in JobsOf(store)
    /\ j \in JobsOf(store')
    /\ store[j].status \notin Terminal
    /\ store'[j].status \in Terminal

\* C11: in every step that takes a job to completed, failed or cancelled, the
\* cancel of a pending job included, each observer registered for the job is
\* invoked once more, with the record that carries the terminal status.
C11_TerminalNotified ==
    [][\A j \in JobIds :
          BecomesTerminal(j)
              => /\ delivered' = notify_progress(progress_callbacks, store'[j])
                 /\ \A i \in 1..Len(delivered') : delivered'[i].job.status \in Terminal]_vars

\* C12: for each job, what a callback is handed for the lines of the job's child
\* comes in the order in which the child wrote the lines, whatever the other job,
\* its child and the other callbacks do in between.
C12_InOrder ==
    \A o \in Subscribers :
        \A a, b \in 1..Len(received[o]) :
            a < b /\ received[o][a].job.id = received[o][b].job.id
                => received[o][a].seq < received[o][b].seq

\* A callback handed two notifications of one job while the other job's child
\* wrote a line in between
C12_Witness ==
    \E o \in Subscribers :
        /\ Len(received[o]) = 2
        /\ received[o][1].job.id = received[o][2].job.id
        /\ received[o][1].seq + 1 < received[o][2].seq
        /\ received[o][1].job.progress.percent # received[o][2].job.progress.percent

\* The step in which task.cancel() is called on task t
CancelRequested(t) ==
    /\ Live(t)
    /\ ~tasks[t].must_cancel
    /\ tasks'[t].must_cancel

\* A task cancelled inside create_subprocess_exec: asyncio closes the transport of
\* the child it has forked, which kills the child
KilledByTransport(t) == tasks[t].pc = "exec"

\* C13: a cancel call for a job whose child has been forked and has not exited sends
\* the child the termination signal in the step that cancels the task, at any moment
\* of the child's start-up; and when a cancelled task ends, a child that is still
\* alive has been signalled.
C13_SignalBeforeCancel ==
    /\ [][\A t \in TaskIds :
            CancelRequested(t) /\ t \in DOMAIN procs /\ procs[t].state = "alive"
                => procs'[t].sigterm]_vars
    /\ [][\A t \in TaskIds :
            CancelDelivered(t) /\ t \in DOMAIN procs /\ procs[t].state = "alive"
                => procs[t].sigterm \/ KilledByTransport(t)]_vars

\* The inputs C14 lists as invalid
ListedInvalid(args) ==
    \/ Given(args.start_time) /\ ~Given(args.end_time)
    \/ Given(args.end_time) /\ ~Given(args.start_time)
    \/ (Given(args.start_time) \/ Given(args.end_time)) /\ (args.dawntodusk \/ args.dusktodawn)
    \/ Given(args.start_time) /\ Given(args.end_time) /\ args.end_time[1] <= args.start_time[1]
    \/ args.days # None /\ args.days[1] < 1
    \/ /\ Given(args.end_date)
       /\ Given(args.start_date) \/ Given(args.date)
       /\ args.end_date[1] < (IF Given(args.start_date) THEN args.start_date[1] ELSE args.date[1])

\* C14: a request with one of the listed invalid inputs is reported as an error,
\* and nothing of it is applied: no job record is created for it and no process
\* is spawned.
C14_InvalidRejected ==
    ListedInvalid(request)
        => /\ compute_window(request) # Null
           /\ store = <<>>
           /\ procs = <<>>

\* C15: the output of merge_segments, for segments with start <= end and a gap >= 0,
\* is sorted ascending by start and pairwise non-overlapping, and two consecutive
\* output segments are more than merge_gap apart.
C15_MergedApart ==
    seg.pc \in {"merged", "done"}
        => LET m == seg.merged
           IN /\ \A i, j \in 1..Len(m) : i < j => m[i][1] <= m[j][1] /\ m[i][2] <= m[j][1]
              /\ \A i \in 1..(Len(m) - 1) : m[i + 1][1] - m[i][2] > seg.merge_gap

\* Three segments given out of order, of which two merge and the third stays just
\* far enough from them
C15_Witness ==
    /\ seg.pc = "merged"
    /\ seg.input = "segments"
    /\ seg.merge_gap > 0
    /\ Len(seg.segments) = 3
    /\ seg.segments[1][1] > seg.segments[2][1]
    /\ Len(seg.merged) = 2
    /\ seg.merged[2][1] - seg.merged[1][2] = seg.merge_gap + 1

\* C16: merging the merged list again with the same gap gives the merged list.
C16_Idempotent ==
    seg.pc = "done" => seg.again = seg.merged

C16_Witness ==
    /\ seg.pc = "done"
    /\ Len(seg.segments) = 3
    /\ Len(seg.merged) = 2
    /\ seg.merged # seg.segments
    /\ seg.again = seg.merged

\* Rounding down and up to whole seconds, by what floor and ceiling mean
FloorOf(v) == CHOOSE n \in 0..v : n * Ticks <= v /\ v < (n + 1) * Ticks
CeilOf(v) == CHOOSE n \in 0..(v + 1) : (n - 1) * Ticks < v /\ v <= n * Ticks

ClaimedSegment(ev) ==
    << Max(FloorOf(ev.start_time[1]) - seg.pre_pad, seg.window_after),
       Min(CeilOf(EndOrStart(ev)) + seg.post_pad, seg.window_before) >>

SetMax(S) == CHOOSE x \in S : \A y \in S : y <= x

StampsOf(index) == { index[i] : i \in 1..Len(index) }

\* The first matched chunk of a segment is the latest chunk that starts at or before
\* the segment; the last matched chunk is the latest that starts before its end
HasMatch(stamps, s) == \E ts \in stamps : ts <= s
FirstMatched(stamps, s) == SetMax({ ts \in stamps : ts <= s })
LastMatched(stamps, s, e) ==
    SetMax({FirstMatched(stamps, s)} \cup { ts \in stamps : FirstMatched(stamps, s) < ts /\ ts < e })

\* The whole number nearest to num / den, the even one of two equally near
Nearest(num, den) ==
    LET lo == num \div den
        Off(k) == IF k * den >= num THEN k * den - num ELSE num - k * den
    IN  CHOOSE n \in {lo, lo + 1} :
            \A m \in {lo, lo + 1} \ {n} : Off(n) < Off(m) \/ (Off(n) = Off(m) /\ n % 2 = 0)

\* The segment the last turn of the loop handed to find_files_for_segment
Asked == src.segments[src.n]

KnownCadenceCall == src.pc = "loop" /\ src.call.called /\ src.cadence # None

DiskPreferred == ~src.no_disk /\ (src.source = "disk" \/ Truthy(src.disk_err))

\* Disk resolution accepts a segment
Accepts(x) ==
    LET stamps == StampsOf(src.disk_index)
    IN  /\ HasMatch(stamps, x[1])
        /\ src.cadence # None =>
              /\ x[1] - FirstMatched(stamps, x[1]) <= Nearest(src.start_slop * src.cadence[1], SlopDen)
              /\ x[2] - LastMatched(stamps, x[1], x[2]) <= Nearest(src.end_slop * src.cadence[1], SlopDen)

StreamUrl(x) == <<BaseUrl, "vod", Camera, "start", x[1], "end", x[2], "master.m3u8">>

IsStreamEntry(entry, x) ==
    /\ entry.start = x[1] /\ entry.end = x[2]
    /\ entry.type = "vod"
    /\ entry.url = StreamUrl(x)
    /\ Truthy(entry.reason)

IsDiskEntry(entry, x) ==
    /\ entry.start = x[1] /\ entry.end = x[2]
    /\ entry.type = "disk"
    /\ entry.files # <<>>
    /\ entry.files[1] = FirstMatched(StampsOf(src.disk_index), x[1])

MatchesPct(l) == l.pct # NoPct
MatchesCnt(l) == l.cnt # <<>>
SegmentsHint(l) == "segment" \in l.kw /\ ({"found", "total"} \cap l.kw # {})
ConcatHint(l) == "concat" \in l.kw
RenderHint(l) == {"running:", "ffmpeg"} \cap l.kw # {}
CompleteHint(l) == "done:" \in l.kw
ErrorHint(l) == {"error", "failed"} \cap l.kw # {}
MatchesHint(l) == SegmentsHint(l) \/ ConcatHint(l) \/ RenderHint(l) \/ CompleteHint(l) \/ ErrorHint(l)

\* The first rule a line matches, in the order of the claim; 6: none
FirstRule(l) ==
    IF MatchesPct(l) THEN 1
    ELSE IF MatchesCnt(l) THEN 2
    ELSE IF l.extract THEN 3
    ELSE IF l.encode THEN 4
    ELSE IF MatchesHint(l) THEN 5
    ELSE 6

RECURSIVE Product(_)
Product(factors) ==
    IF factors = <<>> THEN Frac(1, 1)
    ELSE LET rest == Product(Tail(factors))
         IN  Frac(Head(factors)[1] * rest[1], Head(factors)[2] * rest[2])

InTempoRange(f) == ~Less(f, Frac(1, 2)) /\ ~Less(Frac(2, 1), f)

ChainReturned == tool.fn = "atempo_chain_for_speed" /\ tool.pc = "done"

\* C21: for every speed s > 0 the factors of atempo_chain_for_speed(s) lie in
\* [0.5, 2.0] and their product is s; for s = 25 the chain is 2.0, 2.0, 2.0, 2.0, 1.5625.
C21_ChainProduct ==
    ChainReturned =>
        /\ \A i \in 1..Len(tool.out) : InTempoRange(tool.out[i])
        /\ Same(Product(tool.out), tool.arg)
        /\ Same(tool.arg, Frac(25, 1)) =>
              /\ Len(tool.out) = 5
              /\ \A i \in 1..4 : Same(tool.out[i], Frac(2, 1))
              /\ Same(tool.out[5], Frac(15625, 10000))

\* ---- C22
\* The orders in which the entries of a list can be supplied
Reordered(q) ==
    IF q = <<>> THEN {<<>>}
    ELSE LET n == Len(q)
             shuffles == { f \in [1..n -> 1..n] : \A i, j \in 1..n : i # j => f[i] # f[j] }
         IN  { [i \in 1..n |-> q[f[i]]] : f \in shuffles }

StreamCopy(cmd) ==
    \E i \in 1..(Len(cmd) - 1) : cmd[i] \in {"-c:v", "-c:a"} /\ cmd[i + 1] = "copy"

CommandBuilt == tool.pc = "done" /\ tool.fn \in {"run_ffmpeg", "render_main", "build_ffmpeg_cmd"}

\* frigate_timelapse.py always has a timelapse factor
TimingSet ==
    IF tool.fn = "build_ffmpeg_cmd" THEN TRUE ELSE tool.arg.timelapse # None

\* C23: whenever a timelapse factor or a frame-sampling interval is set, the command
\* built holds neither "-c:v copy" nor "-c:a copy", whatever --copy and --copy-audio are.
C23_EncodeWhenTimed ==
    (CommandBuilt /\ TimingSet) => ~StreamCopy(tool.out)

\* run_ffmpeg called for a timelapse with copy_mode and copy_audio both true
C23_Witness ==
    /\ CommandBuilt /\ tool.fn = "run_ffmpeg"
    /\ tool.arg.timelapse # None /\ tool.arg.copy /\ tool.arg.copy_audio
    /\ tool.arg.timelapse_audio
    /\ \E i \in 1..(Len(tool.out) - 1) : tool.out[i] = "-c:a" /\ tool.out[i + 1] = "aac"

\* ---- C24
is_job_running(job_id) == running_jobs[job_id] # 0

\* C24: an identifier is registered in _running_jobs only while the task registered
\* for it is active; once that task has ended, in whatever way, is_job_running(id) is
\* false.
C24_RegisteredWhileActive ==
    \A j \in JobIds :
        is_job_running(j) =>
            /\ running_jobs[j] \in 1..Len(tasks)
            /\ tasks[running_jobs[j]].job = j
            /\ tasks[running_jobs[j]].pc # "done"

\* The paths of existing files that the output-file markers of a line name
MarkedFiles(line) == ({line.done_path, line.output_path, line.wrote_path} \ {Null}) \cap ExistingFiles

\* The lines of a run that carry a marker naming an existing file, in emission order
MarkerLines(t) == SelectSeq(written[t], LAMBDA line : MarkedFiles(line) # {})

\* The task has ended after its child exited with code 0
ExitedZero(t) ==
    /\ t \in 1..Len(tasks)
    /\ tasks[t].pc = "done"
    /\ ~Missing(store, tasks[t].job)
    /\ store[tasks[t].job].status = COMPLETED

\* C25: when the process has exited with code 0, the job's output file is the path of
\* the last line of the run, in emission order, that carries an output-file marker
\* naming an existing file; a run without such a line stores none
C25_LastMarkerStored ==
    \A t \in TaskIds :
        ExitedZero(t) =>
            LET marked == MarkerLines(t)
                output_file == store[tasks[t].job].output_file
            IN IF marked = <<>> THEN output_file = Null
               ELSE MarkedFiles(marked[Len(marked)]) = {output_file}

\* A run that printed markers naming two different existing files, and a marker naming
\* a missing file after them, has exited with code 0
C25_Witness ==
    \E t \in TaskIds :
        /\ ExitedZero(t)
        /\ Len(MarkerLines(t)) >= 2
        /\ MarkedFiles(MarkerLines(t)[1]) # MarkedFiles(MarkerLines(t)[Len(MarkerLines(t))])
        /\ written[t][Len(written[t])] = L_gone
        /\ MarkedFiles(MarkerLines(t)[Len(MarkerLines(t))]) = {store[tasks[t].job].output_file}

\* The segment handed to the last call of find_files_for_segment
CallSegment == src.segments[src.n]

\* A linear scan: the last position whose timestamp is <= seg_start, 0 when there is none
LinearLast(index, seg_start) ==
    LET at_or_before == { i \in 1..Len(index) : index[i] <= seg_start }
    IN  IF at_or_before = {} THEN 0 ELSE CHOOSE i \in at_or_before : \A k \in at_or_before : k <= i

\* The entries from position pos on whose timestamp is < seg_end
FromBefore(index, pos, seg_end) ==
    SelectSeq(SubSeq(index, pos, Len(index)), LAMBDA ts : ts < seg_end)

\* C26: for a non-empty sorted index and a segment with start < end, the binary search
\* finds the position a linear scan finds for the last entry with timestamp <= start;
\* the files selected are the entries from that position on with timestamp < end; and
\* with no entry at or before start the segment is not resolved to disk
C26_BinarySearch ==
    (src.call.called /\ CallSegment[1] < CallSegment[2]) =>
        LET index == src.disk_index
            pos == LinearLast(index, CallSegment[1])
        IN  /\ last_at_or_before(index, CallSegment[1], 1, Len(index), 0) = pos
            /\ src.call.chosen # <<>> => src.call.chosen = FromBefore(index, pos, CallSegment[2])
            /\ pos = 0 =>
                   /\ src.call.chosen = <<>>
                   /\ src.call.reason = "no chunk starts before segment start"
                   /\ Len(src.resolved) + Len(src.disk_failures) = src.n
                   /\ src.disk_failures # <<>>
                   /\ src.disk_failures[Len(src.disk_failures)][1] = CallSegment[1]
                   /\ src.disk_failures[Len(src.disk_failures)][2] = CallSegment[2]

\* A segment that starts at a chunk in the middle of the index was resolved to two or
\* more files, and the index goes on after them
C26_Witness ==
    /\ src.call.called
    /\ CallSegment[1] < CallSegment[2]
    /\ LinearLast(src.disk_index, CallSegment[1]) > 1
    /\ src.disk_index[LinearLast(src.disk_index, CallSegment[1])] = CallSegment[1]
    /\ Len(src.call.chosen) >= 2
    /\ src.call.chosen[Len(src.call.chosen)] < src.disk_index[Len(src.disk_index)]

\* scan_index has returned
Scanned == src.pc # "args" /\ (src.disk_index # <<>> \/ src.disk_err # Null)

\* The timestamps of the recordings, and of those a usable delta starts at: the step to
\* the next timestamp is at most 60 s (it is > 0, the timestamps being distinct)
ScannedStamps == IF src.disk.present THEN src.disk.stamps ELSE {}
NextStamp(a) == CHOOSE b \in ScannedStamps : a < b /\ \A c \in ScannedStamps : ~(a < c /\ c < b)
UsableStarts ==
    { a \in ScannedStamps : (\E b \in ScannedStamps : a < b) /\ NextStamp(a) - a <= MaxCadenceGap }
Delta(a) == NextStamp(a) - a

\* The k-th smallest of the usable deltas
KthDelta(k) ==
    CHOOSE x \in { Delta(a) : a \in UsableStarts } :
        /\ Cardinality({ a \in UsableStarts : Delta(a) <= x }) >= k
        /\ Cardinality({ a \in UsableStarts : Delta(a) < x }) < k

\* Twice the median of the usable deltas
TwiceMedian ==
    LET n == Cardinality(UsableStarts)
    IN  KthDelta((n + 1) \div 2) + KthDelta((n + 2) \div 2)

\* C27 (as the code has it): the cadence is the median of the usable deltas rounded to
\* the nearest integer, the even one when the median ends in .5, and it is null
\* exactly when there is no usable delta
C27_RoundedMedianOrNull ==
    Scanned =>
        IF UsableStarts = {} THEN src.cadence = None
        ELSE /\ src.cadence # None
             /\ LET twice == 2 * src.cadence[1]
                IN  \/ twice = TwiceMedian
                    \/ /\ twice - TwiceMedian \in {-1, 1}
                       /\ src.cadence[1] % 2 = 0

\* C27 (as stated): the cadence is the median of the usable deltas, and it is null
\* whenever fewer than two usable deltas exist
C27_MedianOrNull ==
    Scanned =>
        IF Cardinality(UsableStarts) < 2 THEN src.cadence = None
        ELSE src.cadence # None /\ 2 * src.cadence[1] = TwiceMedian

\* An index with two usable deltas and one that is too long, whose median 2.5 is
\* returned as 2
C27_Witness ==
    /\ Scanned
    /\ Cardinality(UsableStarts) = 2
    /\ Cardinality(ScannedStamps) > 3
    /\ TwiceMedian = 5
    /\ src.cadence = Some(2)

\* An index with one usable delta has a cadence
C27_OneDelta ==
    /\ Scanned
    /\ Cardinality(UsableStarts) = 1
    /\ src.cadence # None

ScanReturned == tool.fn = "scan_index" /\ tool.pc = "done"

\* The files whose name is a timestamp in [after - 3600, before + 3600]
InSlackWindow ==
    { f \in tool.arg.files :
        /\ parse_filename_ts(f) # None
        /\ parse_filename_ts(f)[1] >= tool.arg.after - Hour
        /\ parse_filename_ts(f)[1] <= tool.arg.before + Hour }

\* C28: the index holds every parseable file whose timestamp lies in
\* [after - 3600, before + 3600], and nothing else
C28_WindowWithSlack ==
    ScanReturned => { e.file : e \in tool.out } = InSlackWindow

ConcatReturned == tool.fn = "build_concat_entries" /\ tool.pc = "done"

\* The disk paths and stream URLs of a manifest, in manifest order
RECURSIVE Flattened(_)
Flattened(manifest) ==
    IF manifest = <<>> THEN <<>>
    ELSE (IF Head(manifest).type = "disk" THEN Head(manifest).files ELSE <<Head(manifest).url>>)
         \o Flattened(Tail(manifest))

\* q without the elements that equal their immediate predecessor
RECURSIVE WithoutRepeats(_)
WithoutRepeats(q) ==
    IF Len(q) < 2 THEN q
    ELSE LET front == WithoutRepeats(SubSeq(q, 1, Len(q) - 1))
         IN  IF q[Len(q)] = q[Len(q) - 1] THEN front ELSE Append(front, q[Len(q)])

\* C29: the entries are the lines of the manifest's paths and URLs in manifest order
\* without those that equal their immediate predecessor; no two adjacent entries are
\* equal; and the same de-duplication applied to the entries changes nothing
C29_AdjacentRepeatsRemoved ==
    ConcatReturned =>
        LET kept == WithoutRepeats(Flattened(tool.arg))
        IN  /\ tool.out = [i \in 1..Len(kept) |-> concat_line(kept[i])]
            /\ \A i \in 1..(Len(tool.out) - 1) : tool.out[i] # tool.out[i + 1]
            /\ WithoutRepeats(tool.out) = tool.out

\* A manifest in which a path repeats inside one source and across two sources, and
\* comes back later after another entry
C29_Witness ==
    /\ ConcatReturned
    /\ Len(tool.arg) = 3
    /\ tool.arg[1].type = "disk" /\ Len(tool.arg[1].files) = 2
    /\ tool.arg[1].files[1] = tool.arg[1].files[2]
    /\ tool.arg[2].type = "disk" /\ Len(tool.arg[2].files) = 2
    /\ tool.arg[2].files[1] = tool.arg[1].files[2]
    /\ tool.arg[2].files[2] # tool.arg[2].files[1]
    /\ tool.arg[3].type = "disk" /\ tool.arg[3].files[1] = tool.arg[1].files[1]
    /\ Len(tool.out) >= 3
    /\ Len(tool.out) < Len(Flattened(tool.arg))

\* The chunks start at strictly increasing timestamps inside [after, before)
ChunksInOrder ==
    LET segments == tool.out.segments
    IN  /\ \A i \in 1..(Len(segments) - 1) : segments[i][1] < segments[i + 1][1]
        /\ \A i \in 1..Len(segments) :
               tool.arg.after <= segments[i][1] /\ segments[i][1] < tool.arg.before

\* C30: for every window with after < before and every sample interval > 0,
\* generate_vod_segments returns, and the chunks it returns start at strictly
\* increasing timestamps inside [after, before)
C30_Terminates ==
    (tool.fn = "generate_vod_segments" /\ tool.pc = "loop")
        ~> (tool.fn = "generate_vod_segments" /\ tool.pc = "done" /\ ChunksInOrder)

====
